---- MODULE Spec2Model ----
(***************************************************************************)
(* A model of the MealDB MCP server's local tools (src/src/tools/local):   *)
(* the recipe and shopping-list stores on a file system, the persisted     *)
(* configuration, the ingredient classifier and the ingredient aggregator. *)
(* Python strings are TLA+ strings; a path is the tuple of its parts.       *)
(***************************************************************************)
EXTENDS Integers, Sequences, FiniteSets, TLC

VARIABLES files, dirs, config_file, RECIPES_DIR, clock, pc, call, loc, result, last_saved,
          saved_docs, partial

vars == <<files, dirs, config_file, RECIPES_DIR, clock, pc, call, loc, result, last_saved,
          saved_docs, partial>>

(***************************************************************************)
(* Python values.                                                          *)
(***************************************************************************)

\* Python's None, where a str may also stand (dict.get of an absent key, JSON null).
None == "<None>"

\* The printable ASCII characters in code point order, from 32 (space) to 126.
\* Code point 96 (the grave accent) cannot be written in a TLA+ string: a form
\* feed, which no string of the model holds, keeps its place.
Ascii == " !\"#$%&'()*+,-./0123456789:;<=>?@ABCDEFGHIJKLMNOPQRSTUVWXYZ[\\]^_\fabcdefghijklmnopqrstuvwxyz{|}~"

CharAt(s, i) == SubSeq(s, i, i)

\* The code point of each character of Ascii, as a table.
RECURSIVE CodePoints(_, _)
CodePoints(lo, hi) ==
  IF lo = hi THEN CharAt(Ascii, lo) :> (31 + lo)
  ELSE LET mid == (lo + hi) \div 2
       IN CodePoints(lo, mid) @@ CodePoints(mid + 1, hi)

OrdTable == CodePoints(1, Len(Ascii))

\* ord(c) of a printable ASCII character.
Ord(c) == OrdTable[c]

Chr(n) == CharAt(Ascii, n - 31)

Min(a, b) == IF a <= b THEN a ELSE b

\* Truthiness of a str-or-None value: `if x:`.
Truthy(x) == x /= None /\ x /= ""

\* str.startswith, str.endswith, and the `in` operator on two strings.
StartsWith(s, pre) == Len(pre) <= Len(s) /\ SubSeq(s, 1, Len(pre)) = pre

EndsWith(s, suf) == Len(suf) <= Len(s) /\ SubSeq(s, Len(s) - Len(suf) + 1, Len(s)) = suf

Contains(s, sub) == \E i \in 1..(Len(s) - Len(sub) + 1) : SubSeq(s, i, i + Len(sub) - 1) = sub

\* str.lower on ASCII text.
LowerChar(c) == IF Ord(c) >= 65 /\ Ord(c) <= 90 THEN Chr(Ord(c) + 32) ELSE c

RECURSIVE Lower(_)
Lower(s) ==
  IF Len(s) = 0 THEN ""
  ELSE IF Len(s) = 1 THEN LowerChar(s)
  ELSE Lower(SubSeq(s, 1, Len(s) \div 2)) \o Lower(SubSeq(s, Len(s) \div 2 + 1, Len(s)))

\* str.upper, str.isalpha and str.isdigit on ASCII text.
UpperChar(c) == IF Ord(c) >= 97 /\ Ord(c) <= 122 THEN Chr(Ord(c) - 32) ELSE c

RECURSIVE Upper(_)
Upper(s) ==
  IF Len(s) = 0 THEN ""
  ELSE IF Len(s) = 1 THEN UpperChar(s)
  ELSE Upper(SubSeq(s, 1, Len(s) \div 2)) \o Upper(SubSeq(s, Len(s) \div 2 + 1, Len(s)))

isalpha(s) == s /= "" /\ \A i \in 1..Len(s) : Ord(LowerChar(CharAt(s, i))) \in 97..122

isdigit(s) == s /= "" /\ \A i \in 1..Len(s) : Ord(CharAt(s, i)) \in 48..57

\* `ing_data['original'].title()` (pdf_shopping.py 127 and 129). str.title():
\* a letter is upper-cased where it follows no letter and lower-cased where
\* it follows one.
title_as_written(s) == s

RECURSIVE TitleFrom(_, _)
TitleFrom(s, i) ==
  IF i > Len(s) THEN ""
  ELSE (IF i > 1 /\ isalpha(CharAt(s, i - 1)) THEN LowerChar(CharAt(s, i))
        ELSE UpperChar(CharAt(s, i)))
       \o TitleFrom(s, i + 1)

title(s) == TitleFrom(s, 1)

\* str.strip(): leading and trailing whitespace removed.
IsSpace(c) == c \in {" ", "\t", "\n", "\r"}

RECURSIVE LStrip(_)
LStrip(s) == IF s /= "" /\ IsSpace(CharAt(s, 1)) THEN LStrip(Tail(s)) ELSE s

RECURSIVE RStrip(_)
RStrip(s) == IF s /= "" /\ IsSpace(CharAt(s, Len(s))) THEN RStrip(SubSeq(s, 1, Len(s) - 1)) ELSE s

Strip(s) == RStrip(LStrip(s))

\* str.replace(old, new) for a one-character old.
RECURSIVE Replace(_, _, _)
Replace(s, old, new) ==
  IF Len(s) = 0 THEN ""
  ELSE IF Len(s) = 1 THEN (IF s = old THEN new ELSE s)
  ELSE Replace(SubSeq(s, 1, Len(s) \div 2), old, new)
       \o Replace(SubSeq(s, Len(s) \div 2 + 1, Len(s)), old, new)

\* a < b for two str: lexicographic by code point.
StrLess(a, b) ==
  LET differ == {i \in 1..Min(Len(a), Len(b)) : CharAt(a, i) /= CharAt(b, i)}
      first == CHOOSE i \in differ : \A j \in differ : i <= j
  IN IF differ = {} THEN Len(a) < Len(b)
     ELSE Ord(CharAt(a, first)) < Ord(CharAt(b, first))

\* sorted(S) of a finite set of str: ascending by code point.
RECURSIVE Sorted(_)
Sorted(S) ==
  IF S = {} THEN <<>>
  ELSE LET m == CHOOSE x \in S : \A y \in S : ~StrLess(y, x)
       IN <<m>> \o Sorted(S \ {m})

Range(seq) == {seq[i] : i \in 1..Len(seq)}

\* dict.get(key, default) on a dict modelled as a function of its keys.
Get(d, key, default) == IF key \in DOMAIN d THEN d[key] ELSE default

\* str(i) for 0 <= i <= 99.
Digit(i) == CharAt("0123456789", i + 1)

IntToStr(i) == IF i < 10 THEN Digit(i) ELSE Digit(i \div 10) \o Digit(i % 10)

(***************************************************************************)
(* pathlib (POSIX). A Path is the tuple Path.parts gives: its first part is *)
(* "/" when the path is absolute, and Path(".") has no parts.              *)
(***************************************************************************)

\* s.split("/")
RECURSIVE SplitSlash(_)
SplitSlash(s) ==
  LET slashes == {i \in 1..Len(s) : CharAt(s, i) = "/"}
      m == CHOOSE i \in slashes :
             Cardinality({j \in slashes : j < i}) = Cardinality(slashes) \div 2
  IN IF slashes = {} THEN <<s>>
     ELSE SplitSlash(SubSeq(s, 1, m - 1)) \o SplitSlash(SubSeq(s, m + 1, Len(s)))

RECURSIVE JoinSlash(_)
JoinSlash(parts) ==
  IF parts = <<>> THEN ""
  ELSE IF Len(parts) = 1 THEN parts[1]
  ELSE parts[1] \o "/" \o JoinSlash(Tail(parts))

\* Path(s): empty and "." parts are dropped, so separators collapse and a
\* trailing "/" goes.
Path(s) ==
  LET names == SelectSeq(SplitSlash(s), LAMBDA x : x /= "" /\ x /= ".")
  IN IF StartsWith(s, "/") THEN <<"/">> \o names ELSE names

IsAbsolute(p) == p /= <<>> /\ p[1] = "/"

\* str(p)
PathStr(p) ==
  IF p = <<>> THEN "."
  ELSE IF IsAbsolute(p) THEN "/" \o JoinSlash(Tail(p))
  ELSE JoinSlash(p)

\* p / s: an absolute s replaces p.
PathJoin(p, s) == IF IsAbsolute(Path(s)) THEN Path(s) ELSE p \o Path(s)

\* Path.name and Path.parent.
PathName(p) == IF p = <<>> \/ p = <<"/">> THEN "" ELSE p[Len(p)]

PathParent(p) == IF p = <<>> \/ p = <<"/">> THEN p ELSE SubSeq(p, 1, Len(p) - 1)

\* a < b for two Path: their parts compared in turn.
RECURSIVE PathLess(_, _)
PathLess(a, b) ==
  IF b = <<>> THEN FALSE
  ELSE IF a = <<>> THEN TRUE
  ELSE IF a[1] = b[1] THEN PathLess(Tail(a), Tail(b))
  ELSE StrLess(a[1], b[1])

\* sorted(S) of a finite set of Path.
RECURSIVE SortedPaths(_)
SortedPaths(S) ==
  IF S = {} THEN <<>>
  ELSE LET m == CHOOSE x \in S : \A y \in S : ~PathLess(y, x)
       IN <<m>> \o SortedPaths(S \ {m})

\* Path.home()
Home == "/home/u"

\* Path.expanduser(): a leading "~" part becomes the home directory; "~name" of
\* a user that does not exist raises RuntimeError (None here).
expanduser(p) ==
  IF p = <<>> \/ ~StartsWith(p[1], "~") THEN p
  ELSE IF p[1] = "~" THEN Path(Home) \o Tail(p)
  ELSE None

\* A directory and all its ancestors: what mkdir(parents=True) leaves existing.
WithParents(p) == {SubSeq(p, 1, k) : k \in (IF IsAbsolute(p) THEN 1 ELSE 0)..Len(p)}

\* path.mkdir(parents=True, exist_ok=True) raises when the path or one of its
\* ancestors is a regular file.
MkdirOk(fs, p) == WithParents(p) \cap fs = {}

\* fnmatch of a file name against "shopping_list_*.pdf".
IsShoppingListName(name) ==
  /\ Len(name) >= Len("shopping_list_") + Len(".pdf")
  /\ StartsWith(name, "shopping_list_")
  /\ EndsWith(name, ".pdf")

\* dir.glob("shopping_list_*.pdf") over the files fs.
GlobShoppingLists(fs, dir) == {f \in fs : PathParent(f) = dir /\ IsShoppingListName(PathName(f))}

\* dir.glob("*.pdf")
GlobPdf(fs, dir) == {f \in fs : PathParent(f) = dir /\ EndsWith(PathName(f), ".pdf")}

(***************************************************************************)
(* json and the configuration file (config.py).                            *)
(***************************************************************************)

\* The escaping json.dump applies to a str: the quote and the backslash.
RECURSIVE JsonEscape(_)
JsonEscape(s) ==
  IF Len(s) = 0 THEN ""
  ELSE IF Len(s) = 1 THEN (IF s \in {"\"", "\\"} THEN "\\" \o s ELSE s)
  ELSE JsonEscape(SubSeq(s, 1, Len(s) \div 2)) \o JsonEscape(SubSeq(s, Len(s) \div 2 + 1, Len(s)))

\* json.dump({"recipes_dir": value}, f, indent=2): the text written.
json_dump_unescaped(value) == "{\n  \"recipes_dir\": \"" \o value \o "\"\n}"

json_dump(value) == "{\n  \"recipes_dir\": \"" \o JsonEscape(value) \o "\"\n}"

\* The number of backslashes in a row that end at position n of t.
BackslashRun(t, n) ==
  Cardinality({j \in 1..n : \A k \in j..n : CharAt(t, k) = "\\"})

\* The backslash at position i of t opens an escape: the backslashes that come
\* right before it pair off.
IsEscaper(t, i) == CharAt(t, i) = "\\" /\ BackslashRun(t, i - 1) % 2 = 0

\* The characters lo..hi of t without the backslashes that open an escape.
RECURSIVE Unescaped(_, _, _)
Unescaped(t, lo, hi) ==
  IF lo > hi THEN ""
  ELSE IF lo = hi THEN (IF IsEscaper(t, lo) THEN "" ELSE CharAt(t, lo))
  ELSE Unescaped(t, lo, (lo + hi) \div 2) \o Unescaped(t, (lo + hi) \div 2 + 1, hi)

\* The positions of t where a string literal can close: the quotes not escaped.
Closers(t) ==
  {i \in 1..Len(t) : CharAt(t, i) = "\"" /\ ~(i > 1 /\ IsEscaper(t, i - 1))}

Minimum(S) == CHOOSE i \in S : \A j \in S : i <= j

\* The string literal that closes at position close of t.
ScanJsonStringAt(t, close) ==
  IF \E i \in 1..(close - 1) : IsEscaper(t, i) /\ CharAt(t, i + 1) \notin {"\"", "\\", "/"}
    THEN [ok |-> FALSE, value |-> "", rest |-> ""]
    ELSE [ok |-> TRUE, value |-> Unescaped(t, 1, close - 1), rest |-> SubSeq(t, close + 1, Len(t))]

\* Scans a JSON string literal whose opening quote has been consumed: the str
\* it denotes and what follows its closing quote; ok is FALSE when it never
\* closes or holds an escape other than of the quote, the backslash and "/".
ScanJsonString(t) ==
  IF Closers(t) = {} THEN [ok |-> FALSE, value |-> "", rest |-> ""]
  ELSE ScanJsonStringAt(t, Minimum(Closers(t)))

\* json.load raises.
JsonError == [ok |-> FALSE, value |-> <<>>]

\* The object has the member `key` and its value has been scanned as w.
json_load_string(key, w) ==
  IF w.ok /\ w.rest = "" THEN [ok |-> TRUE, value |-> (key :> w.value)] ELSE JsonError

\* The text v after the colon of the member `key`.
json_load_value(key, v) ==
  IF v = "null" THEN [ok |-> TRUE, value |-> (key :> None)]
  ELSE IF ~StartsWith(v, "\"") THEN JsonError
  ELSE json_load_string(key, ScanJsonString(Tail(v)))

\* The member name has been scanned as k.
json_load_member(k) ==
  IF ~k.ok \/ ~StartsWith(LStrip(k.rest), ":") THEN JsonError
  ELSE json_load_value(k.value, LStrip(Tail(LStrip(k.rest))))

\* The text between the braces of the object.
json_load_object(inner) ==
  IF inner = "" THEN [ok |-> TRUE, value |-> <<>>]
  ELSE IF ~StartsWith(inner, "\"") THEN JsonError
  ELSE json_load_member(ScanJsonString(Tail(inner)))

\* json.load of a text: ok is FALSE where it raises. The model reads the empty
\* object and an object of one member whose value is a str or null, the shapes
\* the configuration file takes; any other text counts as malformed.
json_load_text(t) ==
  IF ~(Len(t) >= 2 /\ StartsWith(t, "{") /\ EndsWith(t, "}")) THEN JsonError
  ELSE json_load_object(Strip(SubSeq(t, 2, Len(t) - 1)))

json_load(text) == json_load_text(Strip(text))

\* The well-known output directory the host may provide (config.py line 29).
OutputsPath == Path("/mnt/user-data/outputs")

\* `config.get("recipes_dir")` of the configuration file text cfg: None when
\* the file is absent, json.load raises or the key is missing (config.py 16-20).
recipes_path_of(parsed) ==
  IF parsed.ok THEN Get(parsed.value, "recipes_dir", None) ELSE None

\* `Path(recipes_path).expanduser()` when recipes_path is truthy (config.py 21-22).
configured_path(recipes_path) ==
  IF Truthy(recipes_path) THEN expanduser(Path(recipes_path)) ELSE None

\* The text of a configuration file that is there and that open() cannot
\* read: open raises inside the try (config.py 17-18).
Unreadable == "<unreadable>"

\* The default directory without the look at the output directory.
default_path_documents(ds) == PathJoin(PathJoin(Path(Home), "Documents"), "mealdb_recipes")

\* The default directory (config.py 28-37).
default_path(ds) ==
  IF OutputsPath \in ds THEN PathJoin(OutputsPath, "recipes")
  ELSE PathJoin(PathJoin(Path(Home), "Documents"), "mealdb_recipes")

\* The configured path when there is one and its mkdir does not raise, else
\* the default one (config.py 23-38).
load_recipes_dir_from(fs, ds, path, default) ==
  IF path /= None /\ MkdirOk(fs, path)
    THEN [ok |-> TRUE, path |-> path, dirs |-> ds \cup WithParents(path)]
  ELSE IF MkdirOk(fs, default)
    THEN [ok |-> TRUE, path |-> default, dirs |-> ds \cup WithParents(default)]
  ELSE [ok |-> FALSE, path |-> None, dirs |-> ds]

\* load_recipes_dir() on a file system (files fs, directories ds, config file
\* text cfg or None when absent): the path returned, the directories existing
\* afterwards, and ok = FALSE when the final mkdir raises out of the function.
load_recipes_dir(fs, ds, cfg) ==
  load_recipes_dir_from(fs, ds,
    IF cfg = None \/ cfg = Unreadable THEN None
    ELSE configured_path(recipes_path_of(json_load(cfg))),
    default_path(ds))

\* The path has been expanded: mkdir, then the configuration file is written
\* (config.py 44-50).
save_recipes_dir_at(fs, ds, cfg, path) ==
  IF path = None \/ ~MkdirOk(fs, path)
    THEN [ok |-> FALSE, path |-> None, dirs |-> ds, config_file |-> cfg]
    ELSE [ok |-> TRUE, path |-> path, dirs |-> ds \cup WithParents(path),
          config_file |-> json_dump(PathStr(path))]

\* save_recipes_dir(directory): the path returned, the directories and the
\* config file text afterwards; ok = FALSE when expanduser or mkdir raises
\* (nothing is written then).
save_recipes_dir(fs, ds, cfg, directory) ==
  save_recipes_dir_at(fs, ds, cfg, expanduser(Path(directory)))

(***************************************************************************)
(* The ingredient classifier (categories.py).                              *)
(***************************************************************************)

\* The key: value pairs of the dict display that defines INGREDIENT_CATEGORIES,
\* in the order they are written (categories.py lines 7-37).
INGREDIENT_CATEGORIES_literal == <<
  <<"tomato", "Produce">>, <<"lettuce", "Produce">>, <<"onion", "Produce">>,
  <<"garlic", "Produce">>, <<"carrot", "Produce">>, <<"potato", "Produce">>,
  <<"broccoli", "Produce">>, <<"spinach", "Produce">>, <<"pepper", "Produce">>,
  <<"cucumber", "Produce">>, <<"mushroom", "Produce">>, <<"apple", "Produce">>,
  <<"banana", "Produce">>, <<"lemon", "Produce">>, <<"lime", "Produce">>,
  <<"orange", "Produce">>, <<"celery", "Produce">>, <<"zucchini", "Produce">>,
  <<"pumpkin", "Produce">>, <<"bean", "Produce">>, <<"chicken", "Meat & Seafood">>,
  <<"beef", "Meat & Seafood">>, <<"pork", "Meat & Seafood">>, <<"fish", "Meat & Seafood">>,
  <<"salmon", "Meat & Seafood">>, <<"tuna", "Meat & Seafood">>, <<"shrimp", "Meat & Seafood">>,
  <<"cod", "Meat & Seafood">>, <<"turkey", "Meat & Seafood">>, <<"lamb", "Meat & Seafood">>,
  <<"bacon", "Meat & Seafood">>, <<"sausage", "Meat & Seafood">>, <<"milk", "Dairy & Eggs">>,
  <<"cheese", "Dairy & Eggs">>, <<"yogurt", "Dairy & Eggs">>, <<"butter", "Dairy & Eggs">>,
  <<"cream", "Dairy & Eggs">>, <<"egg", "Dairy & Eggs">>, <<"mozzarella", "Dairy & Eggs">>,
  <<"cheddar", "Dairy & Eggs">>, <<"parmesan", "Dairy & Eggs">>, <<"flour", "Pantry & Dry">>,
  <<"rice", "Pantry & Dry">>, <<"pasta", "Pantry & Dry">>, <<"bread", "Pantry & Dry">>,
  <<"sugar", "Pantry & Dry">>, <<"salt", "Pantry & Dry">>, <<"oil", "Pantry & Dry">>,
  <<"vinegar", "Pantry & Dry">>, <<"sauce", "Pantry & Dry">>, <<"honey", "Pantry & Dry">>,
  <<"jam", "Pantry & Dry">>, <<"cereal", "Pantry & Dry">>, <<"bean", "Pantry & Dry">>,
  <<"lentil", "Pantry & Dry">>, <<"salt", "Spices">>, <<"pepper", "Spices">>,
  <<"paprika", "Spices">>, <<"cumin", "Spices">>, <<"cinnamon", "Spices">>,
  <<"ginger", "Spices">>, <<"turmeric", "Spices">>, <<"basil", "Spices">>,
  <<"oregano", "Spices">>, <<"thyme", "Spices">>, <<"chili", "Spices">>,
  <<"mustard", "Spices">>
>>

\* A dict that kept, for a key written twice, the value of its first pair.
RECURSIVE DictItems_first_value(_, _, _)
DictItems_first_value(pairs, lo, hi) ==
  IF lo > hi THEN <<>>
  ELSE IF lo < hi
    THEN DictItems_first_value(pairs, lo, (lo + hi) \div 2)
         \o DictItems_first_value(pairs, (lo + hi) \div 2 + 1, hi)
  ELSE IF \E j \in 1..(lo - 1) : pairs[j][1] = pairs[lo][1] THEN <<>>
  ELSE << <<pairs[lo][1], pairs[lo][2]>> >>

\* The dict a display of pairs builds, as its items in iteration order: a key
\* written twice keeps the position of its first pair and the value of its last.
\* DictItems(pairs, lo, hi) is the items that the pairs lo..hi give a position.
RECURSIVE DictItems(_, _, _)
DictItems(pairs, lo, hi) ==
  IF lo > hi THEN <<>>
  ELSE IF lo < hi
    THEN LET mid == (lo + hi) \div 2
         IN DictItems(pairs, lo, mid) \o DictItems(pairs, mid + 1, hi)
  ELSE IF \E j \in 1..(lo - 1) : pairs[j][1] = pairs[lo][1] THEN <<>>
  ELSE LET last == CHOOSE j \in lo..Len(pairs) :
                     /\ pairs[j][1] = pairs[lo][1]
                     /\ \A k \in (j + 1)..Len(pairs) : pairs[k][1] /= pairs[lo][1]
       IN << <<pairs[lo][1], pairs[last][2]>> >>

\* INGREDIENT_CATEGORIES.items()
INGREDIENT_CATEGORIES ==
  DictItems(INGREDIENT_CATEGORIES_literal, 1, Len(INGREDIENT_CATEGORIES_literal))

\* `ingredient_lower = ingredient.lower()` left out (categories.py line 50).
get_ingredient_category_case_sensitive(ingredient) ==
  LET hits == {i \in 1..Len(INGREDIENT_CATEGORIES) :
                 Contains(ingredient, INGREDIENT_CATEGORIES[i][1])}
  IN IF hits = {} THEN "Other"
     ELSE INGREDIENT_CATEGORIES[CHOOSE i \in hits : \A j \in hits : i <= j][2]

\* The loop of categories.py lines 53-55 without its early return.
get_ingredient_category_last_hit(ingredient) ==
  LET ingredient_lower == Lower(ingredient)
      hits == {i \in 1..Len(INGREDIENT_CATEGORIES) :
                 Contains(ingredient_lower, INGREDIENT_CATEGORIES[i][1])}
  IN IF hits = {} THEN "Other"
     ELSE INGREDIENT_CATEGORIES[CHOOSE i \in hits : \A j \in hits : i >= j][2]

\* get_ingredient_category(ingredient): the category of the first item whose key
\* occurs in the lower-cased name, 'Other' when there is none.
get_ingredient_category(ingredient) ==
  LET ingredient_lower == Lower(ingredient)
      hits == {i \in 1..Len(INGREDIENT_CATEGORIES) :
                 Contains(ingredient_lower, INGREDIENT_CATEGORIES[i][1])}
  IN IF hits = {} THEN "Other"
     ELSE INGREDIENT_CATEGORIES[CHOOSE i \in hits : \A j \in hits : i <= j][2]

(***************************************************************************)
(* The recipe source (api.py) and the bounds of the model.                 *)
(***************************************************************************)

\* The greatest clock value: the clock gives the default shopping-list names.
MaxClock == 1

\* The greatest number of shopping lists present before the first call.
MaxPre == 4

\* The greatest number of meal IDs in one aggregation of SpecAggregate.
MaxMeals == 3

\* The greatest number of words in an ingredient name of SpecClassify.
MaxWords == 2

\* range(1, 21): the ingredient slots of a meal record (tools.py line 474).
NumSlots == 20

\* The invocations that may be in flight.
Procs == {"p1"}

\* The records the recipe API serves, by meal ID. A slot the record lacks reads
\* as "" through dict.get; None is a JSON null.
MealDB ==
  ( "52771" :> [idMeal |-> "52771", strMeal |-> "Pasta", strCategory |-> "Pasta",
                strMealThumb |-> "https://images.invalid/pasta.jpg",
                strIngredient1 |-> "Spaghetti", strMeasure1 |-> "400g",
                strIngredient2 |-> "Tomato", strMeasure2 |-> "3",
                strIngredient3 |-> "", strMeasure3 |-> "",
                strIngredient4 |-> None, strMeasure4 |-> None]
    @@ "52772" :> [idMeal |-> "52772", strMeal |-> "Salad", strCategory |-> "",
                strIngredient1 |-> "Lettuce", strMeasure1 |-> "1 head",
                strIngredient2 |-> " TOMATO ", strMeasure2 |-> " 2 ",
                strIngredient3 |-> "Salt", strMeasure3 |-> " ",
                strIngredient4 |-> " ", strMeasure4 |-> "1 tsp"]
    @@ "52773" :> [idMeal |-> "52773", strMeal |-> "Fish/Chips", strCategory |-> "  ",
                strIngredient1 |-> "tomato", strMeasure1 |-> "",
                strIngredient2 |-> "Sea Salt", strMeasure2 |-> "1 pinch"]
    @@ "52774" :> [idMeal |-> "52774", strMeal |-> "Pasta Soup",
                strIngredient1 |-> "Onion", strMeasure1 |-> None] )

\* A meal ID the API does not know.
UnknownMealId == "99999"

\* The clock as datetime.now().strftime('%Y%m%d_%H%M%S') prints it.
strftime(t) == "20250101_0000" \o Digit(t \div 10) \o Digit(t % 10)

\* The directory load_recipes_dir falls back to (config.py line 36).
DocumentsDefault == PathJoin(PathJoin(Path(Home), "Documents"), "mealdb_recipes")

\* The i-th shopping list present before the first call, named as an earlier
\* save named it.
PreList(i) == PathJoin(DocumentsDefault, "shopping_list_2024010" \o Digit(i) \o "_120000.pdf")

\* A recipe document present before the first call.
PreRecipes == {PathJoin(PathJoin(DocumentsDefault, "Pasta"), "Pasta.pdf")}

\* The locals of a handler before it has run.
NoLocals ==
  [save_dir |-> None, existing_lists |-> <<>>, lists_to_delete |-> <<>>, deleted_count |-> 0,
   todo |-> <<>>, all_ingredients |-> <<>>, meal_names |-> <<>>,
   category |-> None, filepath |-> None, file_exists |-> FALSE,
   total_files |-> 0, shopping_lists |-> <<>>]

NoCall == [name |-> None, arguments |-> <<>>]

(***************************************************************************)
(* The ingredient aggregation of create_shopping_list (tools.py 463-487).  *)
(***************************************************************************)

\* The index of the entry of all_ingredients with the given key, 0 if none.
EntryIndex(all_ingredients, ing_key) ==
  IF \E i \in 1..Len(all_ingredients) : all_ingredients[i].key = ing_key
    THEN CHOOSE i \in 1..Len(all_ingredients) : all_ingredients[i].key = ing_key
    ELSE 0

\* `ingredient.strip().lower()` (tools.py line 477).
ing_key_as_written(ingredient) == ingredient

ing_key_of(ingredient) == Lower(Strip(ingredient))

\* `if measure.strip(): ...['measures'].append(measure.strip())` (tools.py
\* lines 484-485): every non-blank measure is appended, repeated or not.
append_measure_blank_too(measures, measure) == Append(measures, Strip(measure))

append_measure_once(measures, measure) ==
  IF Strip(measure) /= "" /\ Strip(measure) \notin Range(measures)
    THEN Append(measures, Strip(measure)) ELSE measures

append_measure(measures, measure) ==
  IF Strip(measure) /= "" THEN Append(measures, Strip(measure)) ELSE measures

\* One pass of the body of `for i in range(1, 21)` for slot i of a meal: the
\* dict afterwards (its items in insertion order), or None where
\* measure.strip() raises AttributeError on a null measure.
CollectSlot(all_ingredients, meal, meal_name, i) ==
  LET ingredient == Get(meal, "strIngredient" \o IntToStr(i), "")
      measure == Get(meal, "strMeasure" \o IntToStr(i), "")
  IN IF ~(Truthy(ingredient) /\ Strip(ingredient) /= "") THEN all_ingredients
     ELSE LET ing_key == ing_key_of(ingredient)
              seeded == IF EntryIndex(all_ingredients, ing_key) = 0
                          THEN Append(all_ingredients,
                                      [key |-> ing_key, original |-> Strip(ingredient),
                                       measures |-> <<>>, recipes |-> <<>>])
                          ELSE all_ingredients
              k == EntryIndex(seeded, ing_key)
          IN IF measure = None THEN None
             ELSE [seeded EXCEPT
                     ![k].measures = append_measure(@, measure),
                     ![k].recipes = Append(@, meal_name)]

\* The slots i..20 of one meal, in slot order.
RECURSIVE CollectIngredients(_, _, _, _)
CollectIngredients(all_ingredients, meal, meal_name, i) ==
  IF i > NumSlots \/ all_ingredients = None THEN all_ingredients
  ELSE CollectIngredients(CollectSlot(all_ingredients, meal, meal_name, i), meal, meal_name, i + 1)

(***************************************************************************)
(* The shopping-list layout (pdf_shopping.py 102-134).                     *)
(***************************************************************************)

\* sorted(all_ingredients.items(), key=lambda x: x[1]['original'].lower()):
\* ascending by lower-cased display name, equal keys in insertion order.
sorted_ingredients_as_inserted(entries) == entries

RECURSIVE sorted_ingredients(_)
sorted_ingredients(entries) ==
  IF entries = <<>> THEN <<>>
  ELSE LET least == {i \in 1..Len(entries) : \A j \in 1..Len(entries) :
                       ~StrLess(Lower(entries[j].original), Lower(entries[i].original))}
           m == CHOOSE i \in least : \A j \in least : i <= j
       IN <<entries[m]>> \o sorted_ingredients(SubSeq(entries, 1, m - 1) \o SubSeq(entries, m + 1, Len(entries)))

\* The row of one ingredient: its name as aggregated and as drawn, the
\* measures drawn after it, and `set(recipes)`.
IngredientRow(ing_data) ==
  [original |-> ing_data.original, title |-> title(ing_data.original),
   measures |-> ing_data.measures, recipes |-> Range(ing_data.recipes)]

\* The category groups of the layout, in the order they are drawn, each with
\* its rows in the order of sorted_ingredients.
shopping_list_layout(all_ingredients) ==
  LET sorted_ings == sorted_ingredients(all_ingredients)
      categories == {get_ingredient_category(sorted_ings[i].original) : i \in 1..Len(sorted_ings)}
      ordered == Sorted(categories)
  IN [g \in 1..Len(ordered) |->
        [category |-> ordered[g],
         rows |-> LET members == SelectSeq(sorted_ings,
                                   LAMBDA e : get_ingredient_category(e.original) = ordered[g])
                  IN [r \in 1..Len(members) |-> IngredientRow(members[r])]]]

(***************************************************************************)
(* handle_local_tool (tools.py 176-568). A handler runs from one await to   *)
(* the next without interruption; pc is where an invocation is suspended.  *)
(***************************************************************************)

\* The handler of invocation p returns the response `text`.
Respond(p, text, locals) ==
  /\ pc' = [pc EXCEPT ![p] = "done"]
  /\ result' = [result EXCEPT ![p] = text]
  /\ loc' = [loc EXCEPT ![p] = locals]

\* An exception that leaves a handler uncaught: the call is over and has no
\* response.
handle_local_tool_uncaught(p, e, locals) ==
  /\ pc' = [pc EXCEPT ![p] = "raised"]
  /\ UNCHANGED <<result, loc>>

\* An exception raised in the body of handle_local_tool is caught by its last
\* clause and answered as text (tools.py 567-568).
handle_local_tool_except(p, e, locals) == Respond(p, "Error: " \o e, locals)

\* fetch_meal_data(meal_id) once the request has come back: the meal, or the
\* text of the exception it raises (api.py 23-33).
fetch_meal_data(meal_id, http_ok) ==
  IF ~http_ok THEN [ok |-> FALSE, meal |-> <<>>, error |-> "Server error '500 Internal Server Error'"]
  ELSE IF meal_id \notin DOMAIN MealDB
    THEN [ok |-> FALSE, meal |-> <<>>, error |-> "Meal ID " \o meal_id \o " not found"]
  ELSE [ok |-> TRUE, meal |-> MealDB[meal_id], error |-> ""]

\* `if replace_existing and existing_lists:` (tools.py line 453)
ShouldPrune_ignores_flag(replace_existing, existing_lists) == existing_lists /= <<>>

ShouldPrune(replace_existing, existing_lists) == replace_existing /\ existing_lists /= <<>>

\* `existing_lists[:-2] if len(existing_lists) > 2 else []` (tools.py line 455)
lists_to_delete_keeps_one(existing_lists) ==
  IF Len(existing_lists) > 2 THEN SubSeq(existing_lists, 1, Len(existing_lists) - 1) ELSE <<>>

lists_to_delete(existing_lists) ==
  IF Len(existing_lists) > 2 THEN SubSeq(existing_lists, 1, Len(existing_lists) - 2) ELSE <<>>

\* The numbered lines "   i. name\n" of the summary (tools.py 504-505).
RECURSIVE NumberedNames(_, _)
NumberedNames(names, i) ==
  IF i > Len(names) THEN ""
  ELSE "   " \o IntToStr(i) \o ". " \o names[i] \o "\n" \o NumberedNames(names, i + 1)

\* create_shopping_list up to its first await (tools.py 434-469): validation,
\* the save directory, and the retention of existing lists.
create_shopping_list(p, arguments) ==
  /\ pc[p] = "idle"
  /\ call' = [call EXCEPT ![p] = [name |-> "create_shopping_list", arguments |-> arguments]]
  /\ UNCHANGED <<config_file, RECIPES_DIR, clock, last_saved, saved_docs>>
  /\ LET meal_ids == Get(arguments, "meal_ids", <<>>)
         replace_existing == Get(arguments, "replace_existing", FALSE)
         custom_directory == Get(arguments, "directory", None)
         save_dir == IF Truthy(custom_directory) THEN expanduser(Path(custom_directory))
                     ELSE RECIPES_DIR
     IN IF meal_ids = <<>>
          THEN /\ Respond(p, "No meal IDs provided", NoLocals)
               /\ UNCHANGED <<files, dirs>>
        ELSE IF save_dir = None
          THEN /\ handle_local_tool_except(p, "Could not determine home directory.", NoLocals)
               /\ UNCHANGED <<files, dirs>>
        ELSE IF Truthy(custom_directory) /\ ~MkdirOk(files, save_dir)
          THEN /\ handle_local_tool_except(p, "[Errno 17] File exists: '" \o PathStr(save_dir) \o "'", NoLocals)
               /\ UNCHANGED <<files, dirs>>
        ELSE LET existing_lists == SortedPaths(GlobShoppingLists(files, save_dir))
                 doomed == IF ShouldPrune(replace_existing, existing_lists)
                             THEN lists_to_delete(existing_lists) ELSE <<>>
             IN /\ dirs' = IF Truthy(custom_directory) THEN dirs \cup WithParents(save_dir) ELSE dirs
                /\ files' = files \ Range(doomed)
                /\ pc' = [pc EXCEPT ![p] = "fetch_list"]
                /\ loc' = [loc EXCEPT ![p] = [NoLocals EXCEPT !.save_dir = save_dir,
                                                              !.existing_lists = existing_lists,
                                                              !.lists_to_delete = doomed,
                                                              !.deleted_count = Len(doomed),
                                                              !.todo = meal_ids]]
                /\ UNCHANGED result
  /\ partial' = partial \cap files'

\* create_shopping_list_pdf(meal_names, all_ingredients, filepath) returns: the
\* document built from the layout is at filepath (pdf_shopping.py 28-35, 177).
create_shopping_list_pdf(fs, filepath) == fs \cup {filepath}

\* create_shopping_list_pdf raises. doc.build opens str(filepath) for writing,
\* which truncates the file that is there, and then writes the document to it:
\* when it raises before the file is opened the files are as they were, and
\* when it raises after (the device is full) the path holds what was written
\* until then.
create_shopping_list_pdf_raises(fs, filepath, opened) ==
  IF opened THEN fs \cup {filepath} ELSE fs

\* create_shopping_list going round its loop without taking the next meal ID:
\* the return of the fetch leaves it awaiting the same meal.
create_shopping_list_refetch(p, http_ok, render_ok, opened) ==
  /\ pc[p] = "fetch_list"
  /\ UNCHANGED vars

\* create_shopping_list from the return of one fetch_meal_data to the next
\* await or to its response (tools.py 469-520): the meal is aggregated and,
\* after the last one, the document is named, rendered and written. When the
\* build raises, `opened` tells whether it had opened the file.
create_shopping_list_from_fetch(p, http_ok, render_ok, opened) ==
  /\ pc[p] = "fetch_list"
  /\ UNCHANGED <<dirs, config_file, RECIPES_DIR, clock, call, last_saved, saved_docs>>
  /\ LET l == loc[p]
         fetched == fetch_meal_data(Head(l.todo), http_ok)
         meal_name == Get(fetched.meal, "strMeal", "Unknown")
         meal_names == Append(l.meal_names, meal_name)
         all_ingredients == CollectIngredients(l.all_ingredients, fetched.meal, meal_name, 1)
         custom_filename == Get(call[p].arguments, "filename", None)
         filename == IF Truthy(custom_filename) THEN custom_filename \o ".pdf"
                     ELSE "shopping_list_" \o strftime(clock) \o ".pdf"
         filepath == PathJoin(l.save_dir, filename)
     IN IF ~fetched.ok
          THEN /\ handle_local_tool_except(p, fetched.error, l)
               /\ UNCHANGED <<files, partial>>
        ELSE IF all_ingredients = None
          THEN /\ handle_local_tool_except(p, "'NoneType' object has no attribute 'strip'", l)
               /\ UNCHANGED <<files, partial>>
        ELSE IF Tail(l.todo) /= <<>>
          THEN /\ loc' = [loc EXCEPT ![p] = [l EXCEPT !.todo = Tail(l.todo),
                                                      !.meal_names = meal_names,
                                                      !.all_ingredients = all_ingredients]]
               /\ UNCHANGED <<files, partial, pc, result>>
        ELSE LET done == [l EXCEPT !.todo = <<>>, !.meal_names = meal_names,
                                   !.all_ingredients = all_ingredients, !.filepath = filepath]
             IN IF ~render_ok
                  THEN /\ Respond(p, "Failed to create shopping list PDF: [Errno 28] No space left on device", done)
                       /\ files' = create_shopping_list_pdf_raises(files, filepath, opened)
                       /\ partial' = IF opened THEN partial \cup {filepath} ELSE partial
                  ELSE /\ files' = create_shopping_list_pdf(files, filepath)
                       /\ partial' = partial \ {filepath}
                       /\ Respond(p,
                            "Shopping list created successfully!\n\n"
                            \o "File: " \o PathStr(filepath) \o "\n"
                            \o "Recipes (" \o IntToStr(Len(meal_names)) \o "):\n"
                            \o NumberedNames(meal_names, 1)
                            \o "\nTotal ingredients: " \o IntToStr(Len(all_ingredients)) \o "\n"
                            \o (IF l.deleted_count > 0
                                  THEN "Deleted " \o IntToStr(l.deleted_count)
                                       \o " old shopping list(s) to keep max 3\n"
                                  ELSE "")
                            \o "Total shopping lists: "
                            \o IntToStr(Cardinality(GlobShoppingLists(files', l.save_dir))),
                            done)

\* The fetch returns and, where the document is built, the build succeeds or
\* raises before the file is opened.
create_shopping_list_resume(p, http_ok, render_ok) ==
  create_shopping_list_from_fetch(p, http_ok, render_ok, FALSE)

\* The last fetch returns and the build raises while the document is being
\* written to the file it has opened.
create_shopping_list_write_raises(p) ==
  /\ pc[p] = "fetch_list"
  /\ Tail(loc[p].todo) = <<>>
  /\ create_shopping_list_from_fetch(p, TRUE, FALSE, TRUE)

\* What awaiting create_recipe_pdf(meal, filepath) does to the files: its body
\* builds the document at filepath (pdf_recipe.py 29-190).
create_recipe_pdf_awaited(fs, meal, filepath) == fs \cup {filepath}

\* create_recipe_pdf is a coroutine function (pdf_recipe.py line 21) and the
\* handlers call it without await (tools.py lines 223 and 296): the call makes
\* a coroutine object, its body never runs and nothing is raised.
create_recipe_pdf(fs, meal, filepath) == fs

\* `meal.get('strCategory', 'Uncategorized').strip()` (tools.py 205, 278); None
\* where .strip() raises on a null category.
recipe_category(meal) ==
  LET raw == Get(meal, "strCategory", "Uncategorized")
  IN IF raw = None THEN None ELSE Strip(raw)

\* The part save_recipe_to_file and save_recipe_by_name share, from the save
\* directory to the response (tools.py 197-235 and 270-308), on files fs and
\* directories ds: the response, the files and directories afterwards, the locals.
save_recipe(fs, ds, arguments, meal, result_msg) ==
  LET custom_filename == Get(arguments, "filename", None)
      custom_directory == Get(arguments, "directory", None)
      save_dir == IF Truthy(custom_directory) THEN expanduser(Path(custom_directory))
                  ELSE RECIPES_DIR
      ds1 == IF Truthy(custom_directory) THEN ds \cup WithParents(save_dir) ELSE ds
      category == recipe_category(meal)
      category_dir == PathJoin(save_dir, category)
      ds2 == ds1 \cup WithParents(category_dir)
      meal_name == Replace(Replace(Get(meal, "strMeal", "recipe"), "/", "-"), "\\", "-")
      filename == IF Truthy(custom_filename) THEN custom_filename \o ".pdf" ELSE meal_name \o ".pdf"
      filepath == PathJoin(category_dir, filename)
      file_exists == filepath \in fs \cup ds2
      failed(text, d) == [text |-> "Error: " \o text, files |-> fs, dirs |-> d, locals |-> NoLocals]
  IN IF save_dir = None THEN failed("Could not determine home directory.", ds)
     ELSE IF Truthy(custom_directory) /\ ~MkdirOk(fs, save_dir)
       THEN failed("[Errno 17] File exists: '" \o PathStr(save_dir) \o "'", ds)
     ELSE IF category = None THEN failed("'NoneType' object has no attribute 'strip'", ds1)
     ELSE IF ~MkdirOk(fs, category_dir)
       THEN failed("[Errno 17] File exists: '" \o PathStr(category_dir) \o "'", ds1)
     ELSE [text |-> result_msg \o "Recipe saved successfully"
                    \o (IF file_exists THEN " (replaced existing file)" ELSE "")
                    \o "!\n\nFile: " \o PathStr(filepath)
                    \o "\nRecipe: " \o Get(meal, "strMeal", "Unknown")
                    \o "\nCategory: " \o category,
           files |-> create_recipe_pdf(fs, meal, filepath),
           dirs |-> ds2,
           locals |-> [NoLocals EXCEPT !.save_dir = save_dir, !.category = category,
                                       !.filepath = filepath, !.file_exists = file_exists]]

\* The document a save has reported to its caller as saved, if it has: the
\* record kept of the recipe documents saved and not yet deleted.
ReportedSaved(saved) ==
  IF saved.locals.filepath /= None THEN {saved.locals.filepath} ELSE {}

\* save_recipe_to_file up to `await fetch_meal_data(meal_id)` (tools.py 189-195).
save_recipe_to_file(p, arguments) ==
  /\ pc[p] = "idle"
  /\ call' = [call EXCEPT ![p] = [name |-> "save_recipe_to_file", arguments |-> arguments]]
  /\ pc' = [pc EXCEPT ![p] = "fetch_recipe"]
  /\ UNCHANGED <<files, dirs, config_file, RECIPES_DIR, clock, loc, result, last_saved, saved_docs, partial>>

\* save_recipe_to_file from the return of fetch_meal_data (tools.py 195-235).
save_recipe_to_file_resume(p, http_ok) ==
  /\ pc[p] = "fetch_recipe"
  /\ UNCHANGED <<config_file, RECIPES_DIR, clock, call, last_saved, partial>>
  /\ LET fetched == fetch_meal_data(Get(call[p].arguments, "meal_id", ""), http_ok)
         saved == save_recipe(files, dirs, call[p].arguments, fetched.meal, "")
     IN IF ~fetched.ok
          THEN /\ handle_local_tool_except(p, fetched.error, NoLocals)
               /\ UNCHANGED <<files, dirs, saved_docs>>
          ELSE /\ files' = saved.files
               /\ dirs' = saved.dirs
               /\ saved_docs' = saved_docs \cup ReportedSaved(saved)
               /\ Respond(p, saved.text, saved.locals)

\* The answer of the API's search.php to a name: the meals whose name holds it,
\* in ID order; <<>> stands for the null it sends when there is none.
search_meals(recipe_name) ==
  LET ids == Sorted({id \in DOMAIN MealDB : Contains(Lower(MealDB[id].strMeal), Lower(recipe_name))})
  IN [i \in 1..Len(ids) |-> MealDB[ids[i]]]

\* save_recipe_by_name up to `await client.get(...)` (tools.py 238-250).
save_recipe_by_name(p, arguments) ==
  /\ pc[p] = "idle"
  /\ call' = [call EXCEPT ![p] = [name |-> "save_recipe_by_name", arguments |-> arguments]]
  /\ pc' = [pc EXCEPT ![p] = "search_recipe"]
  /\ UNCHANGED <<files, dirs, config_file, RECIPES_DIR, clock, loc, result, last_saved, saved_docs, partial>>

\* save_recipe_by_name from the return of the search request (tools.py 251-308).
save_recipe_by_name_resume(p, http_ok) ==
  /\ pc[p] = "search_recipe"
  /\ UNCHANGED <<config_file, RECIPES_DIR, clock, call, last_saved, partial>>
  /\ LET recipe_name == Get(call[p].arguments, "recipe_name", "")
         meals == search_meals(recipe_name)
         meal == meals[1]
         result_msg == IF Len(meals) > 1
                         THEN "Found " \o IntToStr(Len(meals)) \o " recipes. Saving the first match: "
                              \o Get(meal, "strMeal", None) \o "\n\n"
                         ELSE ""
         saved == save_recipe(files, dirs, call[p].arguments, meal, result_msg)
     IN IF ~http_ok
          THEN /\ handle_local_tool_except(p, "Server error '500 Internal Server Error'", NoLocals)
               /\ UNCHANGED <<files, dirs, saved_docs>>
        ELSE IF meals = <<>>
          THEN /\ Respond(p, "No recipe found with name '" \o recipe_name
                             \o "'. Try a different search term.", NoLocals)
               /\ UNCHANGED <<files, dirs, saved_docs>>
        ELSE /\ files' = saved.files
             /\ dirs' = saved.dirs
             /\ saved_docs' = saved_docs \cup ReportedSaved(saved)
             /\ Respond(p, saved.text, saved.locals)

\* `config.RECIPES_DIR = new_dir` (tools.py 548): the module-level variable
\* after the assignment.
RECIPES_DIR_left_as_it_was(current, new_dir) == current

RECIPES_DIR_assigned(current, new_dir) == new_dir

\* set_recipes_directory (tools.py 539-555).
set_recipes_directory(p, arguments) ==
  /\ pc[p] = "idle"
  /\ call' = [call EXCEPT ![p] = [name |-> "set_recipes_directory", arguments |-> arguments]]
  /\ UNCHANGED <<files, clock, last_saved, saved_docs, partial>>
  /\ LET directory == Get(arguments, "directory", "")
         saved == save_recipes_dir(files, dirs, config_file, directory)
     IN IF ~Truthy(directory)
          THEN /\ Respond(p, "Directory path is required", NoLocals)
               /\ UNCHANGED <<dirs, config_file, RECIPES_DIR>>
        ELSE IF ~saved.ok
          THEN /\ Respond(p, "Failed to set directory: the directory cannot be created", NoLocals)
               /\ UNCHANGED <<dirs, config_file, RECIPES_DIR>>
        ELSE /\ dirs' = saved.dirs
             /\ config_file' = saved.config_file
             /\ RECIPES_DIR' = RECIPES_DIR_assigned(RECIPES_DIR, saved.path)
             /\ Respond(p, "Recipes directory updated!\n\nNew location: " \o PathStr(saved.path),
                        [NoLocals EXCEPT !.save_dir = saved.path])

\* Path.iterdir(): the entries right under dir.
iterdir(fs, ds, dir) == {x \in fs \cup ds : x /= dir /\ PathParent(x) = dir}

\* Path.stem of a document name: the name without its last suffix.
PathStem(name) ==
  IF Len(name) > Len(".pdf") /\ EndsWith(name, ".pdf")
    THEN SubSeq(name, 1, Len(name) - Len(".pdf")) ELSE name

\* The line of stat() figures under a listed document. The model keeps no sizes
\* and no modification times: every document reads as one of 1.0 KB modified
\* at the start of the model's clock; `at` is the word the shopping lists put
\* between the date and the time.
StatLine(indent, at) ==
  indent \o "Size: 1.0 KB | Modified: 2025-01-01" \o at \o "00:00\n"

\* The lines of the documents i.. of one category (tools.py 324-328).
RECURSIVE RecipeLines(_, _)
RecipeLines(docs, i) ==
  IF i > Len(docs) THEN ""
  ELSE "   " \o IntToStr(i) \o ". " \o PathStem(PathName(docs[i])) \o "\n"
       \o StatLine("      ", " ") \o RecipeLines(docs, i + 1)

\* `category_dir.is_dir() and not category_dir.name.startswith('.')` and the
\* documents `sorted(category_dir.glob("*.pdf"))` is not empty (tools.py 320-322).
IsListedCategory(fs, ds, category_dir) ==
  /\ category_dir \in ds
  /\ ~StartsWith(PathName(category_dir), ".")
  /\ GlobPdf(fs \cup ds, category_dir) /= {}

\* The blocks of the categories i.. of the listing (tools.py 319-330).
RECURSIVE CategoryBlocks(_, _, _, _)
CategoryBlocks(fs, ds, entries, i) ==
  IF i > Len(entries) THEN ""
  ELSE (IF IsListedCategory(fs, ds, entries[i])
          THEN PathName(entries[i]) \o " ("
               \o IntToStr(Cardinality(GlobPdf(fs \cup ds, entries[i]))) \o ")\n"
               \o RecipeLines(SortedPaths(GlobPdf(fs \cup ds, entries[i])), 1) \o "\n"
          ELSE "")
       \o CategoryBlocks(fs, ds, entries, i + 1)

\* The documents list_saved_recipes counts: `total_files` (tools.py 319-330).
ListedRecipes(fs, ds, root) ==
  UNION {GlobPdf(fs \cup ds, c) : c \in {e \in iterdir(fs, ds, root) : IsListedCategory(fs, ds, e)}}

\* `not config.RECIPES_DIR.exists()` (tools.py 316).
recipes_dir_missing_unchecked(fs, ds, root) == FALSE

recipes_dir_missing(fs, ds, root) == root \notin fs \cup ds

\* What iterdir() raises on a path that is not a directory.
iterdir_error(fs, dir) ==
  (IF dir \in fs THEN "[Errno 20] Not a directory: '" ELSE "[Errno 2] No such file or directory: '")
  \o PathStr(dir) \o "'"

\* list_saved_recipes (tools.py 311-336).
list_saved_recipes(p, arguments) ==
  /\ pc[p] = "idle"
  /\ call' = [call EXCEPT ![p] = [name |-> "list_saved_recipes", arguments |-> arguments]]
  /\ UNCHANGED <<files, dirs, config_file, RECIPES_DIR, clock, last_saved, saved_docs, partial>>
  /\ IF recipes_dir_missing(files, dirs, RECIPES_DIR)
       THEN Respond(p, "No recipes directory found.\n\nDirectory: " \o PathStr(RECIPES_DIR), NoLocals)
     ELSE IF RECIPES_DIR \notin dirs
       THEN handle_local_tool_except(p, iterdir_error(files, RECIPES_DIR), NoLocals)
     ELSE IF ListedRecipes(files, dirs, RECIPES_DIR) = {}
       THEN Respond(p, "No saved recipes found.\n\nDirectory: " \o PathStr(RECIPES_DIR), NoLocals)
     ELSE Respond(p,
            "Saved recipes by category:\n\n"
            \o CategoryBlocks(files, dirs, SortedPaths(iterdir(files, dirs, RECIPES_DIR)), 1)
            \o "Total recipes: " \o IntToStr(Cardinality(ListedRecipes(files, dirs, RECIPES_DIR)))
            \o "\nDirectory: " \o PathStr(RECIPES_DIR),
            [NoLocals EXCEPT !.total_files = Cardinality(ListedRecipes(files, dirs, RECIPES_DIR))])

\* `if not filename.endswith('.pdf'): filename += '.pdf'` (tools.py 343-344, 396-397).
with_pdf_suffix(filename) == IF EndsWith(filename, ".pdf") THEN filename ELSE filename \o ".pdf"

\* The paths delete_saved_recipe may find: `category_dir / filename` for the
\* entries of the root that are directories, where it exists (tools.py 350-353).
potential_paths(fs, ds, root, filename) ==
  {PathJoin(category_dir, filename) : category_dir \in iterdir(fs, ds, root) \cap ds}
    \cap (fs \cup ds)

\* delete_saved_recipe (tools.py 339-369). iterdir() yields the entries in the
\* order the file system gives them, which is any order: `filepath` is the
\* match the loop comes to first, any of those there are.
delete_saved_recipe(p, arguments) ==
  /\ pc[p] = "idle"
  /\ call' = [call EXCEPT ![p] = [name |-> "delete_saved_recipe", arguments |-> arguments]]
  /\ UNCHANGED <<dirs, config_file, RECIPES_DIR, clock, last_saved>>
  /\ LET filename == Get(arguments, "filename", "")
     IN IF filename = None
          THEN /\ handle_local_tool_except(p, "'NoneType' object has no attribute 'endswith'", NoLocals)
               /\ UNCHANGED <<files, saved_docs, partial>>
        ELSE IF RECIPES_DIR \notin dirs
          THEN /\ handle_local_tool_except(p, iterdir_error(files, RECIPES_DIR), NoLocals)
               /\ UNCHANGED <<files, saved_docs, partial>>
        ELSE IF potential_paths(files, dirs, RECIPES_DIR, with_pdf_suffix(filename)) = {}
          THEN /\ Respond(p, "Recipe not found: " \o with_pdf_suffix(filename)
                              \o "\n\nTip: Use 'list_saved_recipes' to see available recipes.",
                          NoLocals)
               /\ UNCHANGED <<files, saved_docs, partial>>
        ELSE \E filepath \in potential_paths(files, dirs, RECIPES_DIR, with_pdf_suffix(filename)) :
               IF filepath \in dirs
                 THEN /\ handle_local_tool_except(p, "[Errno 21] Is a directory: '"
                                                     \o PathStr(filepath) \o "'", NoLocals)
                      /\ UNCHANGED <<files, saved_docs, partial>>
                 ELSE /\ files' = files \ {filepath}
                      /\ saved_docs' = saved_docs \ {filepath}
                      /\ partial' = partial \ {filepath}
                      /\ Respond(p, "Recipe deleted successfully!\n\nDeleted: "
                                     \o with_pdf_suffix(filename),
                                 [NoLocals EXCEPT !.filepath = filepath])

\* The lines of the shopping lists i.. (tools.py 382-386).
RECURSIVE ShoppingListLines(_, _)
ShoppingListLines(shopping_lists, i) ==
  IF i > Len(shopping_lists) THEN ""
  ELSE IntToStr(i) \o ". " \o PathName(shopping_lists[i]) \o "\n"
       \o StatLine("   ", " at ") \o "\n" \o ShoppingListLines(shopping_lists, i + 1)

\* list_shopping_lists (tools.py 372-389). glob() of a directory that is not
\* there yields nothing.
list_shopping_lists(p, arguments) ==
  /\ pc[p] = "idle"
  /\ call' = [call EXCEPT ![p] = [name |-> "list_shopping_lists", arguments |-> arguments]]
  /\ UNCHANGED <<files, dirs, config_file, RECIPES_DIR, clock, last_saved, saved_docs, partial>>
  /\ IF GlobShoppingLists(files \cup dirs, RECIPES_DIR) = {}
       THEN Respond(p, "No shopping lists found.\n\nDirectory: " \o PathStr(RECIPES_DIR), NoLocals)
       ELSE Respond(p,
              "Found " \o IntToStr(Cardinality(GlobShoppingLists(files \cup dirs, RECIPES_DIR)))
              \o " shopping list(s):\n\n"
              \o ShoppingListLines(SortedPaths(GlobShoppingLists(files \cup dirs, RECIPES_DIR)), 1)
              \o "Directory: " \o PathStr(RECIPES_DIR),
              [NoLocals EXCEPT !.shopping_lists =
                 SortedPaths(GlobShoppingLists(files \cup dirs, RECIPES_DIR))])

\* delete_shopping_list (tools.py 392-412).
delete_shopping_list(p, arguments) ==
  /\ pc[p] = "idle"
  /\ call' = [call EXCEPT ![p] = [name |-> "delete_shopping_list", arguments |-> arguments]]
  /\ UNCHANGED <<dirs, config_file, RECIPES_DIR, clock, last_saved, saved_docs>>
  /\ LET filename == Get(arguments, "filename", "")
     IN IF filename = None
          THEN /\ handle_local_tool_except(p, "'NoneType' object has no attribute 'endswith'", NoLocals)
               /\ UNCHANGED <<files, partial>>
        ELSE IF PathJoin(RECIPES_DIR, with_pdf_suffix(filename)) \notin files \cup dirs
          THEN /\ Respond(p, "Shopping list not found: " \o with_pdf_suffix(filename)
                              \o "\n\nTip: Use 'list_shopping_lists' to see available lists.",
                          NoLocals)
               /\ UNCHANGED <<files, partial>>
        ELSE IF PathJoin(RECIPES_DIR, with_pdf_suffix(filename)) \in dirs
          THEN /\ handle_local_tool_except(p, "[Errno 21] Is a directory: '"
                      \o PathStr(PathJoin(RECIPES_DIR, with_pdf_suffix(filename))) \o "'", NoLocals)
               /\ UNCHANGED <<files, partial>>
        ELSE /\ files' = files \ {PathJoin(RECIPES_DIR, with_pdf_suffix(filename))}
             /\ partial' = partial \ {PathJoin(RECIPES_DIR, with_pdf_suffix(filename))}
             /\ Respond(p, "Shopping list deleted successfully!\n\nDeleted: "
                            \o with_pdf_suffix(filename),
                        [NoLocals EXCEPT
                           !.filepath = PathJoin(RECIPES_DIR, with_pdf_suffix(filename))])

\* delete_all_shopping_lists (tools.py 415-431).
delete_all_shopping_lists(p, arguments) ==
  /\ pc[p] = "idle"
  /\ call' = [call EXCEPT ![p] = [name |-> "delete_all_shopping_lists", arguments |-> arguments]]
  /\ UNCHANGED <<dirs, config_file, RECIPES_DIR, clock, last_saved, saved_docs>>
  /\ IF GlobShoppingLists(files \cup dirs, RECIPES_DIR) = {}
       THEN /\ Respond(p, "No shopping lists found to delete.\n\nDirectory: "
                           \o PathStr(RECIPES_DIR), NoLocals)
            /\ UNCHANGED <<files, partial>>
     ELSE IF GlobShoppingLists(dirs, RECIPES_DIR) /= {}
       THEN /\ handle_local_tool_except(p, "[Errno 21] Is a directory", NoLocals)
            /\ \E gone \in SUBSET GlobShoppingLists(files, RECIPES_DIR) :
                 /\ files' = files \ gone
                 /\ partial' = partial \ gone
       ELSE /\ files' = files \ GlobShoppingLists(files, RECIPES_DIR)
            /\ partial' = partial \ GlobShoppingLists(files, RECIPES_DIR)
            /\ Respond(p, "Successfully deleted "
                           \o IntToStr(Cardinality(GlobShoppingLists(files, RECIPES_DIR)))
                           \o " shopping list(s)!",
                       [NoLocals EXCEPT !.deleted_count =
                          Cardinality(GlobShoppingLists(files, RECIPES_DIR))])

\* create_shopping_list_from_saved (tools.py 523-536).
create_shopping_list_from_saved(p, arguments) ==
  /\ pc[p] = "idle"
  /\ call' = [call EXCEPT ![p] = [name |-> "create_shopping_list_from_saved", arguments |-> arguments]]
  /\ Respond(p, "This feature requires recipe metadata storage which isn't implemented yet.\n\n"
                \o "Workaround:\n1. List your saved recipes with 'list_saved_recipes'\n"
                \o "2. Look up each recipe by name to get its ID\n"
                \o "3. Use 'create_shopping_list' with those IDs\n\n"
                \o "Or, I can help you create a shopping list if you tell me which saved "
                \o "recipes you want to include!", NoLocals)
  /\ UNCHANGED <<files, dirs, config_file, RECIPES_DIR, clock, last_saved, saved_docs, partial>>

\* get_recipes_directory (tools.py 558-562).
get_recipes_directory(p, arguments) ==
  /\ pc[p] = "idle"
  /\ call' = [call EXCEPT ![p] = [name |-> "get_recipes_directory", arguments |-> arguments]]
  /\ Respond(p, "Current recipes directory:\n" \o PathStr(RECIPES_DIR), NoLocals)
  /\ UNCHANGED <<files, dirs, config_file, RECIPES_DIR, clock, last_saved, saved_docs, partial>>

\* Is x the directory dir or something under it?
IsUnder(x, dir) == Len(x) >= Len(dir) /\ SubSeq(x, 1, Len(dir)) = dir

\* The user removes the recipes directory with all it holds, from outside the
\* server, between two calls.
RemoveRoot ==
  /\ \A p \in Procs : pc[p] = "idle"
  /\ RECIPES_DIR \in dirs
  /\ files' = {f \in files : ~IsUnder(f, RECIPES_DIR)}
  /\ dirs' = {d \in dirs : ~IsUnder(d, RECIPES_DIR)}
  /\ saved_docs' = {f \in saved_docs : ~IsUnder(f, RECIPES_DIR)}
  /\ partial' = {f \in partial : ~IsUnder(f, RECIPES_DIR)}
  /\ UNCHANGED <<config_file, RECIPES_DIR, clock, pc, call, loc, result, last_saved>>

(***************************************************************************)
(* handle_api_tool (api_tools.py 197-417). Every tool makes one request; pc *)
(* is "api_request" while it is awaited.                                   *)
(***************************************************************************)

\* What an f-string prints for a value that is a str or None.
Str(x) == IF x = None THEN "None" ELSE x

\* The text an operator gives where the Python it models raises.
Raised == "<raised>"

\* sep.join(texts); Raised where one of the texts is.
RECURSIVE Join(_, _)
Join(texts, sep) ==
  IF texts = <<>> THEN ""
  ELSE IF Raised \in Range(texts) THEN Raised
  ELSE IF Len(texts) = 1 THEN texts[1]
  ELSE texts[1] \o sep \o Join(Tail(texts), sep)

\* The ingredient lines of format_full_meal for the slots i..20 (api_tools.py
\* 16-21); measure.strip() raises on a null measure.
RECURSIVE IngredientLines(_, _)
IngredientLines(meal, i) ==
  IF i > NumSlots THEN <<>>
  ELSE IF ~(Truthy(Get(meal, "strIngredient" \o IntToStr(i), ""))
            /\ Strip(Get(meal, "strIngredient" \o IntToStr(i), "")) /= "")
    THEN IngredientLines(meal, i + 1)
  ELSE IF Get(meal, "strMeasure" \o IntToStr(i), "") = None THEN <<Raised>>
  ELSE <<"  - " \o Strip(Get(meal, "strMeasure" \o IntToStr(i), "")) \o " "
         \o Strip(Get(meal, "strIngredient" \o IntToStr(i), ""))>>
       \o IngredientLines(meal, i + 1)

\* The text of format_full_meal once the ingredient lines are joined.
format_full_meal_with(meal, ingredients_text) ==
  IF ingredients_text = Raised THEN Raised
  ELSE "# " \o Str(Get(meal, "strMeal", "Unknown"))
       \o (IF Truthy(Get(meal, "strMealThumb", ""))
             THEN "\n[View Recipe Image](" \o Get(meal, "strMealThumb", "") \o ")" ELSE "")
       \o "\n\n**ID:** " \o Str(Get(meal, "idMeal", "N/A"))
       \o "\n**Category:** " \o Str(Get(meal, "strCategory", "N/A"))
       \o "\n**Cuisine:** " \o Str(Get(meal, "strArea", "N/A"))
       \o "\n**Tags:** " \o Str(Get(meal, "strTags", "N/A"))
       \o "\n\n## Ingredients:\n"
       \o (IF ingredients_text = "" THEN "No ingredients listed" ELSE ingredients_text)
       \o "\n\n## Instructions:\n"
       \o Str(Get(meal, "strInstructions", "No instructions available"))
       \o "\n\n"
       \o (IF Truthy(Get(meal, "strYoutube", None))
             THEN "**Video:** " \o Get(meal, "strYoutube", None) ELSE "")
       \o "\n"

\* format_full_meal (api_tools.py 14-42).
format_full_meal(meal) == format_full_meal_with(meal, Join(IngredientLines(meal, 1), "\n"))

\* format_meal_summary (api_tools.py 45-56).
format_meal_summary(meal) ==
  IF Truthy(Get(meal, "strMealThumb", ""))
    THEN "- **[" \o Str(Get(meal, "strMeal", "Unknown")) \o "](" \o Get(meal, "strMealThumb", "")
         \o ")** (ID: " \o Str(Get(meal, "idMeal", "N/A")) \o ")"
    ELSE "- **" \o Str(Get(meal, "strMeal", "Unknown")) \o "** (ID: "
         \o Str(Get(meal, "idMeal", "N/A")) \o ")"

\* format_category (api_tools.py 59-70); len(desc) raises on a null description.
format_category(cat) ==
  IF Get(cat, "strCategoryDescription", "No description") = None THEN Raised
  ELSE "## " \o Str(Get(cat, "strCategory", "Unknown"))
       \o (IF Truthy(Get(cat, "strCategoryThumb", ""))
             THEN "\n[View Category Image](" \o Get(cat, "strCategoryThumb", "") \o ")" ELSE "")
       \o "\n"
       \o (IF Len(Get(cat, "strCategoryDescription", "No description")) > 200
             THEN SubSeq(Get(cat, "strCategoryDescription", "No description"), 1, 200) \o "..."
             ELSE Get(cat, "strCategoryDescription", "No description"))
       \o "\n"

\* [format_full_meal(meal) for meal in meals], and the like for the summaries,
\* the categories and the values of one key.
FullMeals(meals) == [i \in 1..Len(meals) |-> format_full_meal(meals[i])]

MealSummaries(meals) == [i \in 1..Len(meals) |-> format_meal_summary(meals[i])]

Categories(categories) == [i \in 1..Len(categories) |-> format_category(categories[i])]

\* [item.get(key, "") for item in items]; joining a None among them raises.
ValuesOf(items, key) ==
  [i \in 1..Len(items) |-> IF Get(items[i], key, "") = None THEN Raised ELSE Get(items[i], key, "")]

\* sorted(names) of a list of str, repeated names kept.
RECURSIVE SortedList(_)
SortedList(names) ==
  IF names = <<>> THEN <<>>
  ELSE LET least == {i \in 1..Len(names) : \A j \in 1..Len(names) : ~StrLess(names[j], names[i])}
           m == CHOOSE i \in least : \A j \in least : i <= j
       IN <<names[m]>> \o SortedList(SubSeq(names, 1, m - 1) \o SubSeq(names, m + 1, Len(names)))

\* The line of one ingredient of list_all_ingredients (api_tools.py 339-346).
IngredientLine(ing) ==
  IF Truthy(Get(ing, "strDescription", ""))
    THEN "- **" \o Str(Get(ing, "strIngredient", "Unknown")) \o "** - "
         \o (IF Len(Get(ing, "strDescription", "")) > 100
               THEN SubSeq(Get(ing, "strDescription", ""), 1, 100) \o "..."
               ELSE Get(ing, "strDescription", ""))
         \o "\n"
    ELSE "- **" \o Str(Get(ing, "strIngredient", "Unknown")) \o "**\n"

IngredientLinesOf(ingredients) ==
  [i \in 1..Min(Len(ingredients), 100) |-> IngredientLine(ingredients[i])]

\* The names handle_api_tool answers to (api_tools.py 203-394).
ApiToolNames ==
  {"search_meal_by_name", "list_meals_by_first_letter", "lookup_meal_by_id", "get_random_meal",
   "list_all_categories", "list_category_names", "list_area_names", "list_all_ingredients",
   "filter_by_ingredient", "filter_by_category", "filter_by_area"}

\* The names of the tools get_api_tool_definitions advertises, in its order
\* (api_tools.py 80-190).
get_api_tool_definitions ==
  <<"search_meal_by_name", "list_meals_by_first_letter", "lookup_meal_by_id", "get_random_meal",
    "list_all_categories", "list_category_names", "list_area_names", "list_all_ingredients",
    "filter_by_ingredient", "filter_by_category", "filter_by_area">>

\* The names of the tools get_local_tool_definitions advertises, in its order
\* (tools.py 20-172).
get_local_tool_definitions ==
  <<"save_recipe_to_file", "save_recipe_by_name", "list_saved_recipes", "delete_saved_recipe",
    "list_shopping_lists", "delete_shopping_list", "delete_all_shopping_lists",
    "create_shopping_list", "create_shopping_list_from_saved", "set_recipes_directory",
    "get_recipes_directory">>

\* The parameter a tool reads from its arguments, with the default it reads
\* it with, "" for the tools that read none.
api_parameter(name, arguments) ==
  CASE name = "search_meal_by_name" -> Get(arguments, "name", "")
    [] name = "list_meals_by_first_letter" -> Get(arguments, "letter", "a")
    [] name = "lookup_meal_by_id" -> Get(arguments, "meal_id", "")
    [] name = "filter_by_ingredient" -> Get(arguments, "ingredient", "")
    [] name = "filter_by_category" -> Get(arguments, "category", "")
    [] name = "filter_by_area" -> Get(arguments, "area", "")
    [] OTHER -> ""

\* What a tool answers before any request, None when it goes on to make the
\* request (api_tools.py 226-230 and 251-255).
api_validation(name, arguments) ==
  IF name = "list_meals_by_first_letter"
       /\ (~isalpha(Upper(api_parameter(name, arguments)))
            \/ Len(Upper(api_parameter(name, arguments))) /= 1)
    THEN "Invalid input. Please provide a single letter (A-Z)."
  ELSE IF name = "lookup_meal_by_id" /\ ~isdigit(api_parameter(name, arguments))
    THEN "Invalid meal ID. Please provide a numeric ID."
  ELSE None

\* A list read from the answer with data.get(key) or data.get(key, []); what
\* `not meals` tells of it.
IsEmptyList(items) == items = None \/ items = <<>>

\* The text of the tools that list meals, for the meals found (api_tools.py
\* 209-222, 236-247, 360-371, 380-391, 400-411).
api_meals_text(name, x, meals) ==
  CASE name = "search_meal_by_name" ->
         IF IsEmptyList(meals) THEN "No meals found for '" \o x \o "'"
         ELSE Join(<<"Found " \o IntToStr(Len(meals)) \o " meal(s) for '" \o x \o "':\n\n",
                     Join(FullMeals(meals), "\n---\n\n"),
                     "\n\n **What would you like to do?**\n- See any specific recipe?\n"
                     \o "- See all categories or areas?\n"
                     \o "- Search recipes by ingredient or specific letter (a-z)?">>, "")
    [] name = "list_meals_by_first_letter" ->
         IF IsEmptyList(meals) THEN "No meals found starting with '" \o Upper(x) \o "'"
         ELSE "Found " \o IntToStr(Len(meals)) \o " meal(s) starting with '" \o Upper(x) \o "':\n\n"
              \o Join(MealSummaries(meals), "\n")
              \o "\n\n **What would you like to do?**\n- See any specific recipe?\n"
              \o "- See all categories or areas?\n- Search by ingredient or name?"
    [] name = "lookup_meal_by_id" ->
         IF IsEmptyList(meals) THEN "No meal found with ID '" \o x \o "'"
         ELSE Join(<<format_full_meal(meals[1]),
                     "\n\n **What would you like to do?**\n- Save this recipe as a PDF?\n"
                     \o "- Create a shopping list?\n- See another recipe?">>, "")
    [] name = "filter_by_ingredient" ->
         IF IsEmptyList(meals) THEN "No meals found with ingredient '" \o x \o "'"
         ELSE "Found " \o IntToStr(Len(meals)) \o " meal(s) with '" \o x \o "':\n\n"
              \o Join(MealSummaries(meals), "\n")
              \o "\n\n **What would you like to do?**\n- See any specific recipe?\n"
              \o "- Try another filter?"
    [] name = "filter_by_category" ->
         IF IsEmptyList(meals) THEN "No meals found in category '" \o x \o "'"
         ELSE "Found " \o IntToStr(Len(meals)) \o " meal(s) in category '" \o x \o "':\n\n"
              \o Join(MealSummaries(meals), "\n")
              \o "\n\n **What would you like to do?**\n- See any specific recipe?\n"
              \o "- Try another filter?"
    [] name = "filter_by_area" ->
         IF IsEmptyList(meals) THEN "No meals found from area '" \o x \o "'"
         ELSE "Found " \o IntToStr(Len(meals)) \o " meal(s) from '" \o x \o "' cuisine:\n\n"
              \o Join(MealSummaries(meals), "\n")
              \o "\n\n **What would you like to do?**\n- See any specific recipe?\n"
              \o "- Try another filter?"

\* The text of the tools that read a catalogue, for the list read with the
\* default [] (api_tools.py 279-288, 296-302, 310-315, 323-328, 336-351);
\* Raised where the list is null or, for get_random_meal, empty.
api_catalogue_text(name, items) ==
  IF items = None \/ (name = "get_random_meal" /\ items = <<>>) THEN Raised
  ELSE CASE name = "get_random_meal" ->
              Join(<<"Here's a random meal:\n\n", format_full_meal(items[1]),
                     "\n\n **What would you like to do?**\n- Save this recipe as a PDF?\n"
                     \o "- Create a shopping list?\n- See another random meal?\n">>, "")
         [] name = "list_all_categories" ->
              Join(<<"Found " \o IntToStr(Len(items)) \o " categories:\n\n",
                     Join(Categories(items), "\n"),
                     "\n\n **What would you like to do?**\n"
                     \o "- See recipes in any specific category?">>, "")
         [] name = "list_category_names" ->
              Join(<<"Available categories (" \o IntToStr(Len(items)) \o "):\n\n",
                     Join(ValuesOf(items, "strCategory"), ", ")>>, "")
         [] name = "list_area_names" ->
              Join(<<"Available cuisines/areas (" \o IntToStr(Len(items)) \o "):\n\n",
                     IF Raised \in Range(ValuesOf(items, "strArea")) THEN Raised
                     ELSE Join(SortedList(ValuesOf(items, "strArea")), ", ")>>, "")
         [] name = "list_all_ingredients" ->
              "Found " \o IntToStr(Len(items)) \o " ingredients:\n\n"
              \o Join(IngredientLinesOf(items), "")
              \o (IF Len(items) > 100
                    THEN "\n... and " \o IntToStr(Len(items) - 100)
                         \o " more ingredients (showing first 100)"
                    ELSE "")

\* The text a tool builds from the JSON object `data` of the answer; Raised
\* where building it raises.
api_text(name, x, data) ==
  IF name \in {"get_random_meal"} THEN api_catalogue_text(name, Get(data, "meals", <<<<>>>>))
  ELSE IF name = "list_all_categories" THEN api_catalogue_text(name, Get(data, "categories", <<>>))
  ELSE IF name \in {"list_category_names", "list_area_names", "list_all_ingredients"}
    THEN api_catalogue_text(name, Get(data, "meals", <<>>))
  ELSE api_meals_text(name, x, Get(data, "meals", None))

\* An exception raised in the body of handle_api_tool is caught by its last
\* clause and answered as text (api_tools.py 416-417).
handle_api_tool_except(p, e) == Respond(p, "API Error: " \o e, NoLocals)

\* handle_api_tool up to `await client.get(...)`: the parameter is read and,
\* for two of the tools, validated.
handle_api_tool(p, name, arguments) ==
  /\ pc[p] = "idle"
  /\ name \in ApiToolNames
  /\ call' = [call EXCEPT ![p] = [name |-> name, arguments |-> arguments]]
  /\ UNCHANGED <<files, dirs, config_file, RECIPES_DIR, clock, last_saved, saved_docs, partial>>
  /\ IF api_parameter(name, arguments) = None
       THEN IF name \in {"list_meals_by_first_letter", "lookup_meal_by_id"}
              THEN handle_api_tool_except(p, "'NoneType' object has no attribute")
              ELSE /\ pc' = [pc EXCEPT ![p] = "api_request"]
                   /\ UNCHANGED <<loc, result>>
     ELSE IF api_validation(name, arguments) /= None
       THEN Respond(p, api_validation(name, arguments), NoLocals)
     ELSE /\ pc' = [pc EXCEPT ![p] = "api_request"]
          /\ UNCHANGED <<loc, result>>

\* handle_api_tool from the return of the request: the request itself,
\* raise_for_status() or response.json() may raise, and so may the building
\* of the text from the object read.
handle_api_tool_resume(p, response) ==
  /\ pc[p] = "api_request"
  /\ UNCHANGED <<files, dirs, config_file, RECIPES_DIR, clock, call, last_saved, saved_docs, partial>>
  /\ IF response.kind = "connect_error"
       THEN handle_api_tool_except(p, "All connection attempts failed")
     ELSE IF response.kind = "status_error"
       THEN handle_api_tool_except(p, "Server error '500 Internal Server Error'")
     ELSE IF response.kind = "not_json"
       THEN handle_api_tool_except(p, "Expecting value: line 1 column 1 (char 0)")
     ELSE IF api_text(call[p].name, Str(api_parameter(call[p].name, call[p].arguments)),
                      response.data) = Raised
       THEN handle_api_tool_except(p, "the answer is not of the shape the tool reads")
     ELSE Respond(p, api_text(call[p].name, Str(api_parameter(call[p].name, call[p].arguments)),
                              response.data), NoLocals)

\* A response of save_recipe_to_file or save_recipe_by_name that reports success.
IsRecipeSaved(p) ==
  /\ pc[p] = "done"
  /\ call[p].name \in {"save_recipe_to_file", "save_recipe_by_name"}
  /\ Contains(result[p], "Recipe saved successfully")

\* The names handle_local_tool answers to (tools.py 187-562).
LocalToolNames ==
  {"save_recipe_to_file", "save_recipe_by_name", "list_saved_recipes", "delete_saved_recipe",
   "list_shopping_lists", "delete_shopping_list", "delete_all_shopping_lists",
   "create_shopping_list", "create_shopping_list_from_saved", "set_recipes_directory",
   "get_recipes_directory"}

\* handle_local_tool up to its first await or, where it has none, to its
\* return: the branch of the tool named (tools.py 187-565).
handle_local_tool(p, name, arguments) ==
  CASE name = "save_recipe_to_file" -> save_recipe_to_file(p, arguments)
    [] name = "save_recipe_by_name" -> save_recipe_by_name(p, arguments)
    [] name = "list_saved_recipes" -> list_saved_recipes(p, arguments)
    [] name = "delete_saved_recipe" -> delete_saved_recipe(p, arguments)
    [] name = "list_shopping_lists" -> list_shopping_lists(p, arguments)
    [] name = "delete_shopping_list" -> delete_shopping_list(p, arguments)
    [] name = "delete_all_shopping_lists" -> delete_all_shopping_lists(p, arguments)
    [] name = "create_shopping_list" -> create_shopping_list(p, arguments)
    [] name = "create_shopping_list_from_saved" -> create_shopping_list_from_saved(p, arguments)
    [] name = "set_recipes_directory" -> set_recipes_directory(p, arguments)
    [] name = "get_recipes_directory" -> get_recipes_directory(p, arguments)

\* The answer of call_tool to a name neither handler knows (server.py 60).
unknown_tool(p, name, arguments) ==
  /\ pc[p] = "idle"
  /\ name \notin ApiToolNames \cup LocalToolNames
  /\ call' = [call EXCEPT ![p] = [name |-> name, arguments |-> arguments]]
  /\ Respond(p, "ERROR: Unknown tool: " \o name, NoLocals)
  /\ UNCHANGED <<files, dirs, config_file, RECIPES_DIR, clock, last_saved, saved_docs, partial>>

\* call_tool with no local handler to ask after the API handler.
call_tool_without_local(p, name, arguments) ==
  IF name \in ApiToolNames THEN handle_api_tool(p, name, arguments)
  ELSE /\ pc[p] = "idle"
       /\ call' = [call EXCEPT ![p] = [name |-> name, arguments |-> arguments]]
       /\ Respond(p, "ERROR: Unknown tool: " \o name, NoLocals)
       /\ UNCHANGED <<files, dirs, config_file, RECIPES_DIR, clock, last_saved, saved_docs, partial>>

\* call_tool (server.py 47-61): the API handler is asked first, the local one
\* when it returns None, and a name neither knows is answered as unknown.
call_tool(p, name, arguments) ==
  IF name \in ApiToolNames THEN handle_api_tool(p, name, arguments)
  ELSE IF name \in LocalToolNames THEN handle_local_tool(p, name, arguments)
  ELSE unknown_tool(p, name, arguments)

\* The response reaches the caller, and the invocation is over. last_saved
\* records the path of a recipe save that reported success, for the next call.
Return(p) ==
  /\ pc[p] = "done"
  /\ last_saved' = IF IsRecipeSaved(p) THEN loc[p].filepath ELSE None
  /\ pc' = [pc EXCEPT ![p] = "idle"]
  /\ call' = [call EXCEPT ![p] = NoCall]
  /\ loc' = [loc EXCEPT ![p] = NoLocals]
  /\ result' = [result EXCEPT ![p] = None]
  /\ UNCHANGED <<files, dirs, config_file, RECIPES_DIR, clock, saved_docs, partial>>

\* The server process is started anew: `RECIPES_DIR = load_recipes_dir()` runs
\* again on the file system as it is (config.py line 54).
Restart ==
  /\ \A p \in Procs : pc[p] = "idle"
  /\ LET loaded == load_recipes_dir(files, dirs, config_file)
     IN /\ loaded.ok
        /\ RECIPES_DIR' = loaded.path
        /\ dirs' = loaded.dirs
  /\ last_saved' = None
  /\ UNCHANGED <<files, config_file, clock, pc, call, loc, result, saved_docs, partial>>

\* A second passes on the wall clock.
Tick ==
  /\ clock < MaxClock
  /\ clock' = clock + 1
  /\ UNCHANGED <<files, dirs, config_file, RECIPES_DIR, pc, call, loc, result, last_saved, saved_docs, partial>>

(***************************************************************************)
(* The specification of the stores: the tools called one after another on  *)
(* a file system that may already hold documents.                          *)
(***************************************************************************)

\* The argument records the calls are drawn from.
ShoppingListArguments ==
  {[meal_ids |-> <<>>],
   [meal_ids |-> <<"52771">>],
   [meal_ids |-> <<"52771", "52772">>, replace_existing |-> TRUE],
   [meal_ids |-> <<"52772">>, replace_existing |-> FALSE],
   [meal_ids |-> <<UnknownMealId>>, replace_existing |-> TRUE],
   [meal_ids |-> <<"52774">>],
   [meal_ids |-> <<"52773">>, replace_existing |-> TRUE, filename |-> "mine"],
   [meal_ids |-> <<"52771">>, replace_existing |-> TRUE, directory |-> "~/my"]}

SaveRecipeArguments ==
  {[meal_id |-> id] : id \in DOMAIN MealDB \cup {UnknownMealId}}
  \cup {[meal_id |-> "52771", filename |-> "my_custom_recipe"],
        [meal_id |-> "52772", directory |-> "~/my"]}

SaveByNameArguments ==
  {[recipe_name |-> n] : n \in {"pasta", "salad", "fish", "zzz"}}
  \cup {[recipe_name |-> "Salad", filename |-> "my_custom_recipe", directory |-> "~/my"]}

SetDirectoryArguments ==
  {[directory |-> d] : d \in {"", "~/my", "/data/a\\b\"c/", "~nobody/r", "/srv/recipes",
                              "~/Documents/mealdb_recipes/Pasta/Pasta.pdf", "rel/dir"}}

\* The state at the start of the server process on a file system holding the
\* files fs and no configuration file: `RECIPES_DIR = load_recipes_dir()`
\* has run (config.py line 54) and no tool has been called.
StartupOf(fs, invocations) ==
  /\ files = fs
  /\ config_file = None
  /\ dirs = load_recipes_dir(files, UNION {WithParents(PathParent(f)) : f \in files}
                                    \cup WithParents(Path(Home)), config_file).dirs
  /\ RECIPES_DIR = load_recipes_dir(files, dirs, config_file).path
  /\ clock = 0
  /\ pc = [p \in invocations |-> "idle"]
  /\ call = [p \in invocations |-> NoCall]
  /\ loc = [p \in invocations |-> NoLocals]
  /\ result = [p \in invocations |-> None]
  /\ last_saved = None
  /\ saved_docs = {f \in files : ~IsShoppingListName(PathName(f))}
  /\ partial = {}

Startup(fs) == StartupOf(fs, Procs)

Init ==
  \E n \in 0..MaxPre, pre \in SUBSET PreRecipes : Startup({PreList(i) : i \in 1..n} \cup pre)

Next ==
  \/ \E p \in Procs, arguments \in ShoppingListArguments : create_shopping_list(p, arguments)
  \/ \E p \in Procs, http_ok \in BOOLEAN, render_ok \in BOOLEAN :
       create_shopping_list_resume(p, http_ok, render_ok)
  \/ \E p \in Procs, arguments \in SaveRecipeArguments : save_recipe_to_file(p, arguments)
  \/ \E p \in Procs, http_ok \in BOOLEAN : save_recipe_to_file_resume(p, http_ok)
  \/ \E p \in Procs, arguments \in SaveByNameArguments : save_recipe_by_name(p, arguments)
  \/ \E p \in Procs, http_ok \in BOOLEAN : save_recipe_by_name_resume(p, http_ok)
  \/ \E p \in Procs, arguments \in SetDirectoryArguments : set_recipes_directory(p, arguments)
  \/ \E p \in Procs : get_recipes_directory(p, <<>>)
  \/ \E p \in Procs : list_saved_recipes(p, <<>>)
  \/ \E p \in Procs, arguments \in {<<>>, [filename |-> "Pasta"], [filename |-> "Salad.pdf"]} :
       delete_saved_recipe(p, arguments)
  \/ \E p \in Procs : list_shopping_lists(p, <<>>)
  \/ \E p \in Procs, arguments \in {<<>>, [filename |-> "mine"], [filename |-> PathName(PreList(1))]} :
       delete_shopping_list(p, arguments)
  \/ \E p \in Procs : delete_all_shopping_lists(p, <<>>)
  \/ \E p \in Procs : create_shopping_list_from_saved(p, <<>>)
  \/ \E p \in Procs : create_shopping_list_write_raises(p)
  \/ \E p \in Procs, name \in ApiToolNames,
        arguments \in {<<>>, [name |-> "pasta"], [letter |-> "pa"], [meal_id |-> "52771"]} :
       handle_api_tool(p, name, arguments)
  \/ \E p \in Procs, kind \in {"connect_error", "status_error", "not_json"} :
       handle_api_tool_resume(p, [kind |-> kind])
  \/ \E p \in Procs, meals \in {<<>>, <<MealDB["52771"]>>, <<MealDB["52774"]>>} :
       handle_api_tool_resume(p, [kind |-> "json", data |-> [meals |-> meals]])
  \/ \E p \in Procs : unknown_tool(p, "order_pizza", <<>>)
  \/ \E p \in Procs : Return(p)
  \/ RemoveRoot
  \/ Restart
  \/ Tick

Spec == Init /\ [][Next]_vars

(***************************************************************************)
(* The shopping lists alone: create_shopping_list called again and again   *)
(* as the clock advances, on a directory that holds 0..MaxPre lists.       *)
(***************************************************************************)

InitLists == \E n \in 0..MaxPre : Startup({PreList(i) : i \in 1..n})

NextLists ==
  \/ \E p \in Procs, arguments \in ShoppingListArguments : create_shopping_list(p, arguments)
  \/ \E p \in Procs, http_ok \in BOOLEAN, render_ok \in BOOLEAN :
       create_shopping_list_resume(p, http_ok, render_ok)
  \/ \E p \in Procs : Return(p)
  \/ Tick

SpecLists == InitLists /\ [][NextLists]_vars

(***************************************************************************)
(* Two create_shopping_list invocations on one event loop: each runs from  *)
(* one await to the next without interruption, and the other may run while *)
(* it awaits a meal (tools.py line 469).                                   *)
(***************************************************************************)

Invocations == {"a", "b"}

ReplacingArguments ==
  {[meal_ids |-> <<"52771">>, replace_existing |-> TRUE],
   [meal_ids |-> <<"52772", "52773">>, replace_existing |-> TRUE]}

InitInterleaved == \E n \in 0..MaxPre : StartupOf({PreList(i) : i \in 1..n}, Invocations)

NextInterleaved ==
  \/ \E p \in Invocations, arguments \in ReplacingArguments : create_shopping_list(p, arguments)
  \/ \E p \in Invocations, http_ok \in BOOLEAN, render_ok \in BOOLEAN :
       create_shopping_list_resume(p, http_ok, render_ok)
  \/ Tick

SpecInterleaved == InitInterleaved /\ [][NextInterleaved]_vars

(***************************************************************************)
(* The recipe documents alone: the two save tools called one after another.*)
(***************************************************************************)

InitRecipes == \E pre \in SUBSET PreRecipes : Startup(pre)

NextRecipes ==
  \/ \E p \in Procs, arguments \in SaveRecipeArguments : save_recipe_to_file(p, arguments)
  \/ \E p \in Procs, http_ok \in BOOLEAN : save_recipe_to_file_resume(p, http_ok)
  \/ \E p \in Procs, arguments \in SaveByNameArguments : save_recipe_by_name(p, arguments)
  \/ \E p \in Procs, http_ok \in BOOLEAN : save_recipe_by_name_resume(p, http_ok)
  \/ \E p \in Procs : Return(p)

SpecRecipes == InitRecipes /\ [][NextRecipes]_vars

(***************************************************************************)
(* The configuration store alone: the directory is set and the process is  *)
(* restarted, in any order.                                                *)
(***************************************************************************)

InitConfig == Startup({})

NextConfig ==
  \/ \E p \in Procs, arguments \in SetDirectoryArguments : set_recipes_directory(p, arguments)
  \/ \E p \in Procs : Return(p)
  \/ Restart

SpecConfig == InitConfig /\ [][NextConfig]_vars

(***************************************************************************)
(* The classifier alone: get_ingredient_category applied to one name made  *)
(* of up to MaxWords words.                                                *)
(***************************************************************************)

Words ==
  {"Fresh", "Tomatoes", "Ground", "Beef", "black", "pepper", "Sea", "Salt",
   "Green", "Beans", "tomato", "sauce", "XYZ"}

\* The names of exactly k words, the words one space apart.
RECURSIVE NamesOf(_)
NamesOf(k) ==
  IF k = 1 THEN Words
  ELSE {n \o " " \o w : n \in NamesOf(k - 1), w \in Words}

IngredientNames ==
  UNION {NamesOf(k) : k \in 1..MaxWords} \cup {"", "unknown XYZ ingredient", "BELL PEPPER", "paprika", "Smoked Paprika", "Ground Cumin"}

InitClassify ==
  /\ \E ingredient \in IngredientNames :
       call = [p \in Procs |-> [name |-> "get_ingredient_category",
                                arguments |-> [ingredient |-> ingredient]]]
  /\ pc = [p \in Procs |-> "classify"]
  /\ files = {}
  /\ dirs = {}
  /\ config_file = None
  /\ RECIPES_DIR = DocumentsDefault
  /\ clock = 0
  /\ loc = [p \in Procs |-> NoLocals]
  /\ result = [p \in Procs |-> None]
  /\ last_saved = None
  /\ saved_docs = {f \in files : ~IsShoppingListName(PathName(f))}
  /\ partial = {}

\* The call get_ingredient_category(ingredient) returns.
Classify(p) ==
  /\ pc[p] = "classify"
  /\ Respond(p, get_ingredient_category(call[p].arguments.ingredient), NoLocals)
  /\ UNCHANGED <<files, dirs, config_file, RECIPES_DIR, clock, call, last_saved, saved_docs, partial>>

NextClassify == \E p \in Procs : Classify(p)

SpecClassify == InitClassify /\ [][NextClassify]_vars

(***************************************************************************)
(* The aggregation alone: create_shopping_list on every sequence of up to  *)
(* MaxMeals meal IDs, in an empty directory.                               *)
(***************************************************************************)

AggregateArguments ==
  {[meal_ids |-> ids] : ids \in UNION {[1..k -> DOMAIN MealDB] : k \in 1..MaxMeals}}

InitAggregate == Startup({})

NextAggregate ==
  \/ \E p \in Procs, arguments \in AggregateArguments : create_shopping_list(p, arguments)
  \/ \E p \in Procs, http_ok \in BOOLEAN, render_ok \in BOOLEAN :
       create_shopping_list_resume(p, http_ok, render_ok)

SpecAggregate == InitAggregate /\ [][NextAggregate]_vars

(***************************************************************************)
(* The current directory: it is set, asked for and used by the tools that  *)
(* are given no directory of their own, in one process.                    *)
(***************************************************************************)

DirectoryArguments ==
  {[directory |-> d] : d \in {"", "~/my", "/srv/recipes/", "~nobody/r"}}

DirectorySaveArguments ==
  {[meal_id |-> "52771"], [meal_id |-> "52771", directory |-> "~/other"]}

DirectoryListArguments ==
  {[meal_ids |-> <<"52771">>, replace_existing |-> TRUE],
   [meal_ids |-> <<"52773">>, directory |-> "~/other"]}

DirectoryDeleteArguments ==
  {[filename |-> f] : f \in {"shopping_list_20250101_000000", "nonexistent.pdf"}}

InitDirectory == \E n \in 0..1 : Startup({PreList(i) : i \in 1..n})

NextDirectory ==
  \/ \E p \in Procs, arguments \in DirectoryArguments : set_recipes_directory(p, arguments)
  \/ \E p \in Procs : get_recipes_directory(p, <<>>)
  \/ \E p \in Procs, arguments \in DirectorySaveArguments : save_recipe_to_file(p, arguments)
  \/ \E p \in Procs, http_ok \in BOOLEAN : save_recipe_to_file_resume(p, http_ok)
  \/ \E p \in Procs, arguments \in DirectoryListArguments : create_shopping_list(p, arguments)
  \/ \E p \in Procs, http_ok \in BOOLEAN, render_ok \in BOOLEAN :
       create_shopping_list_resume(p, http_ok, render_ok)
  \/ \E p \in Procs : list_saved_recipes(p, <<>>)
  \/ \E p \in Procs : list_shopping_lists(p, <<>>)
  \/ \E p \in Procs, arguments \in DirectoryDeleteArguments : delete_shopping_list(p, arguments)
  \/ \E p \in Procs : delete_all_shopping_lists(p, <<>>)
  \/ \E p \in Procs : Return(p)

SpecDirectory == InitDirectory /\ [][NextDirectory]_vars

(***************************************************************************)
(* The saved documents: recipes are saved, listed and deleted under a root *)
(* that may hold documents of earlier runs and that the user may remove.   *)
(***************************************************************************)

\* The recipe documents that may be there before the first call.
SavedBefore ==
  {PathJoin(PathJoin(DocumentsDefault, "Pasta"), "Pasta.pdf"),
   PathJoin(PathJoin(DocumentsDefault, "Dessert"), "Pasta.pdf"),
   PathJoin(PathJoin(DocumentsDefault, "Dessert"), "Cake.pdf")}

SavedRecipeArguments == {[meal_id |-> "52771"], [meal_id |-> "52774"]}

DeleteRecipeArguments ==
  {[filename |-> f] : f \in {"Pasta", "Cake.pdf", "nonexistent.pdf"}} \cup {<<>>}

InitSaved ==
  \E pre \in SUBSET SavedBefore, n \in 0..1 : Startup(pre \cup {PreList(i) : i \in 1..n})

NextSaved ==
  \/ \E p \in Procs, arguments \in SavedRecipeArguments : save_recipe_to_file(p, arguments)
  \/ \E p \in Procs, http_ok \in BOOLEAN : save_recipe_to_file_resume(p, http_ok)
  \/ \E p \in Procs : list_saved_recipes(p, <<>>)
  \/ \E p \in Procs, arguments \in DeleteRecipeArguments : delete_saved_recipe(p, arguments)
  \/ \E p \in Procs : list_shopping_lists(p, <<>>)
  \/ \E p \in Procs : Return(p)
  \/ RemoveRoot

SpecSaved == InitSaved /\ [][NextSaved]_vars

(***************************************************************************)
(* The tools as call_tool serves them: every name, with arguments that are *)
(* well formed and arguments that are not, and an API that answers every   *)
(* request in one of the ways an HTTP service can. One call is followed    *)
(* from its arrival to its answer, on each of the file systems of InitTools.*)
(***************************************************************************)

\* The calls made: <<name, arguments>>.
ToolCalls ==
  <<<<"search_meal_by_name", [name |-> "pasta"]>>,
    <<"search_meal_by_name", [name |-> ""]>>,
    <<"list_meals_by_first_letter", [letter |-> "p"]>>,
    <<"list_meals_by_first_letter", [letter |-> "pa"]>>,
    <<"list_meals_by_first_letter", [letter |-> "1"]>>,
    <<"list_meals_by_first_letter", [letter |-> ""]>>,
    <<"list_meals_by_first_letter", <<>>>>,
    <<"list_meals_by_first_letter", [letter |-> None]>>,
    <<"lookup_meal_by_id", [meal_id |-> "52771"]>>,
    <<"lookup_meal_by_id", [meal_id |-> "abc"]>>,
    <<"lookup_meal_by_id", <<>>>>,
    <<"get_random_meal", <<>>>>,
    <<"list_all_categories", <<>>>>,
    <<"list_category_names", <<>>>>,
    <<"list_area_names", <<>>>>,
    <<"list_all_ingredients", <<>>>>,
    <<"filter_by_ingredient", [ingredient |-> "tomato"]>>,
    <<"filter_by_category", [category |-> "Pasta"]>>,
    <<"filter_by_area", [area |-> ""]>>,
    <<"save_recipe_to_file", [meal_id |-> "52771"]>>,
    <<"save_recipe_to_file", [meal_id |-> "52774"]>>,
    <<"save_recipe_to_file", [meal_id |-> "abc"]>>,
    <<"save_recipe_to_file", <<>>>>,
    <<"save_recipe_by_name", [recipe_name |-> "salad"]>>,
    <<"save_recipe_by_name", [recipe_name |-> ""]>>,
    <<"list_saved_recipes", <<>>>>,
    <<"delete_saved_recipe", [filename |-> "Pasta"]>>,
    <<"delete_saved_recipe", <<>>>>,
    <<"list_shopping_lists", <<>>>>,
    <<"delete_shopping_list", [filename |-> "shopping_list_20250101_000000"]>>,
    <<"delete_shopping_list", <<>>>>,
    <<"delete_all_shopping_lists", <<>>>>,
    <<"create_shopping_list", [meal_ids |-> <<"52771", "52772">>]>>,
    <<"create_shopping_list", [meal_ids |-> <<>>, replace_existing |-> TRUE]>>,
    <<"create_shopping_list", [meal_ids |-> <<"abc">>, replace_existing |-> TRUE]>>,
    <<"create_shopping_list", <<>>>>,
    <<"create_shopping_list_from_saved", <<>>>>,
    <<"set_recipes_directory", [directory |-> "~/my"]>>,
    <<"set_recipes_directory", [directory |-> ""]>>,
    <<"set_recipes_directory", [directory |-> "~nobody/r"]>>,
    <<"get_recipes_directory", <<>>>>,
    <<"order_pizza", <<>>>>,
    <<"SAVE_RECIPE_TO_FILE", [meal_id |-> "52771"]>>>>

\* The ways the API answers a request of handle_api_tool: no connection, an
\* error status, a body that is not JSON, or a JSON object.
ApiResponses ==
  <<[kind |-> "connect_error"],
    [kind |-> "status_error"],
    [kind |-> "not_json"],
    [kind |-> "json", data |-> <<>>],
    [kind |-> "json", data |-> [meals |-> None]],
    [kind |-> "json", data |-> [meals |-> <<>>, categories |-> <<>>]],
    [kind |-> "json", data |-> [meals |-> <<MealDB["52771"]>>]],
    [kind |-> "json", data |-> [meals |-> <<MealDB["52773"], MealDB["52774"]>>]],
    [kind |-> "json",
     data |-> [meals |-> <<[strCategory |-> "Pasta", strArea |-> "Italian",
                            strIngredient |-> "Tomato", strDescription |-> "A red fruit"],
                           [strCategory |-> "Dessert", strArea |-> "British",
                            strIngredient |-> "Salt", strDescription |-> None]>>,
               categories |-> <<[strCategory |-> "Pasta", strCategoryDescription |-> "Noodles"]>>]],
    [kind |-> "json",
     data |-> [meals |-> <<[strMeal |-> "Pasta"], [strCategory |-> None, strArea |-> None]>>,
               categories |-> <<[strCategory |-> "Dessert", strCategoryDescription |-> None]>>]]>>

InitTools ==
  \E pre \in SUBSET SavedBefore, n \in {0, 3} : Startup(pre \cup {PreList(i) : i \in 1..n})

NextTools ==
  \/ \E p \in Procs, i \in DOMAIN ToolCalls : call_tool(p, ToolCalls[i][1], ToolCalls[i][2])
  \/ \E p \in Procs, i \in DOMAIN ApiResponses : handle_api_tool_resume(p, ApiResponses[i])
  \/ \E p \in Procs, http_ok \in BOOLEAN : save_recipe_to_file_resume(p, http_ok)
  \/ \E p \in Procs, http_ok \in BOOLEAN : save_recipe_by_name_resume(p, http_ok)
  \/ \E p \in Procs, http_ok \in BOOLEAN, render_ok \in BOOLEAN :
       create_shopping_list_resume(p, http_ok, render_ok)

SpecTools == InitTools /\ [][NextTools]_vars

\* The collaborators return: every request of a handler is made with a timeout
\* (api_tools.py 200, api.py 23, tools.py 246), so that an invocation that
\* awaits an answer of the API is resumed, with the answer or with a failure.
CollaboratorsReturn ==
  \A p \in Procs :
    /\ WF_vars(\E i \in DOMAIN ApiResponses : handle_api_tool_resume(p, ApiResponses[i]))
    /\ WF_vars(\E http_ok \in BOOLEAN : save_recipe_to_file_resume(p, http_ok))
    /\ WF_vars(\E http_ok \in BOOLEAN : save_recipe_by_name_resume(p, http_ok))
    /\ WF_vars(\E http_ok \in BOOLEAN, render_ok \in BOOLEAN :
                 create_shopping_list_resume(p, http_ok, render_ok))

SpecToolsFair == SpecTools /\ CollaboratorsReturn

(***************************************************************************)
(* Properties of the shopping-list retention (SpecLists).                  *)
(***************************************************************************)

\* Invocation p is a create_shopping_list call that has got past its
\* validation and has looked at the lists in its save directory.
ListCallUnderWay(p) ==
  /\ call[p].name = "create_shopping_list"
  /\ pc[p] \in {"fetch_list", "done"}
  /\ loc[p].save_dir /= None

\* Invocation p has answered that the shopping list was created.
IsListCreated(p) ==
  /\ ListCallUnderWay(p)
  /\ pc[p] = "done"
  /\ StartsWith(result[p], "Shopping list created successfully!")

\* The shopping lists in the save directory of invocation p now.
ListsNow(p) == GlobShoppingLists(files, loc[p].save_dir)

\* The document invocation p has written, if it is one that glob finds.
ListWritten(p) ==
  IF IsListCreated(p) /\ IsShoppingListName(PathName(loc[p].filepath))
    THEN {loc[p].filepath} ELSE {}

\* The lists among E that have fewer than two greater names in E.
TwoGreatest(E) == {f \in E : Cardinality({g \in E : PathLess(f, g)}) < 2}

\* C1: with replace_existing=true on a directory holding n shopping lists, the
\* lists deleted are exactly all but the two with the greatest names, and after
\* a successful save under a new default name min(n,2)+1 lists remain, never
\* more than three.
C1_RetentionKeepsTwoGreatest ==
  \A p \in Procs :
    (ListCallUnderWay(p) /\ Get(call[p].arguments, "replace_existing", FALSE))
      => LET E == Range(loc[p].existing_lists)
             n == Cardinality(E)
         IN /\ Range(loc[p].lists_to_delete) = E \ TwoGreatest(E)
            /\ loc[p].deleted_count = Cardinality(E \ TwoGreatest(E))
            /\ ListsNow(p) = TwoGreatest(E) \cup ListWritten(p)
            /\ (/\ IsListCreated(p)
                /\ "filename" \notin DOMAIN call[p].arguments
                /\ loc[p].filepath \notin E)
                 => /\ Cardinality(ListsNow(p)) = Min(n, 2) + 1
                    /\ Cardinality(ListsNow(p)) <= 3

\* Four lists were there, the call asked for retention and succeeded under a
\* new default name: two were deleted and three are there.
C1_Witness ==
  \E p \in Procs :
    /\ IsListCreated(p)
    /\ Get(call[p].arguments, "replace_existing", FALSE)
    /\ "filename" \notin DOMAIN call[p].arguments
    /\ Len(loc[p].existing_lists) = 4
    /\ loc[p].filepath \notin Range(loc[p].existing_lists)
    /\ loc[p].deleted_count = 2
    /\ Cardinality(ListsNow(p)) = 3

\* C2: with replace_existing=false nothing is deleted whatever the number n of
\* lists: every list that was there is still there, and a successful save under
\* a new name leaves n+1 lists.
C2_NoRetentionDeletesNothing ==
  \A p \in Procs :
    (ListCallUnderWay(p) /\ ~Get(call[p].arguments, "replace_existing", FALSE))
      => LET E == Range(loc[p].existing_lists)
             n == Cardinality(E)
         IN /\ loc[p].lists_to_delete = <<>>
            /\ loc[p].deleted_count = 0
            /\ E \subseteq files
            /\ ListsNow(p) = E \cup ListWritten(p)
            /\ (IsListCreated(p) /\ loc[p].filepath \notin E)
                 => /\ loc[p].filepath \in files
                    /\ Cardinality(E \cup {loc[p].filepath}) = n + 1
                    /\ ListWritten(p) /= {} => Cardinality(ListsNow(p)) = n + 1

\* Four lists were there, the call did not ask for retention and succeeded
\* under a new name: five are there.
C2_Witness ==
  \E p \in Procs :
    /\ IsListCreated(p)
    /\ ~Get(call[p].arguments, "replace_existing", FALSE)
    /\ Len(loc[p].existing_lists) = 4
    /\ loc[p].filepath \notin Range(loc[p].existing_lists)
    /\ Cardinality(ListsNow(p)) = 5

(***************************************************************************)
(* Properties of the recipe documents (SpecRecipes).                       *)
(***************************************************************************)

\* C3: whenever save_recipe_to_file or save_recipe_by_name answers with its
\* success result for a recipe of category C and name N, a recipe document
\* exists at <root>/C/<N or the custom filename>.pdf, so the category directory
\* holds at least that PDF.
C3_SavedRecipeExists ==
  \A p \in Procs :
    IsRecipeSaved(p)
      => /\ loc[p].filepath \in files
         /\ PathParent(loc[p].filepath) = PathJoin(loc[p].save_dir, loc[p].category)
         /\ GlobPdf(files, PathJoin(loc[p].save_dir, loc[p].category)) /= {}

\* C4: the same recipe saved twice to the same target leaves one file at the
\* target path, and the second result says 'replaced existing file' while a
\* first save to a path where nothing was does not.
C4_SecondSaveReplaces ==
  \A p \in Procs :
    IsRecipeSaved(p)
      => /\ loc[p].filepath = last_saved
              => /\ loc[p].filepath \in files
                 /\ Contains(result[p], "(replaced existing file)")
         /\ (last_saved = None /\ loc[p].filepath \notin files \cup dirs)
              => ~Contains(result[p], "(replaced existing file)")

\* C5: a recipe whose category is empty or blank is saved under
\* <root>/Uncategorized, and no recipe save targets the root directory itself.
C5_BlankCategoryUncategorized ==
  \A p \in Procs :
    IsRecipeSaved(p)
      => /\ PathParent(loc[p].filepath) /= loc[p].save_dir
         /\ loc[p].category = ""
              => PathParent(loc[p].filepath) = PathJoin(loc[p].save_dir, "Uncategorized")

(***************************************************************************)
(* Properties of the classifier (SpecClassify).                            *)
(***************************************************************************)

\* get_ingredient_category has returned to invocation p.
IsClassified(p) == pc[p] = "done" /\ call[p].name = "get_ingredient_category"

\* The positions of the written pairs whose substring occurs in the
\* lower-cased name.
PairsOccurring(ingredient) ==
  {i \in 1..Len(INGREDIENT_CATEGORIES_literal) :
     Contains(Lower(ingredient), INGREDIENT_CATEGORIES_literal[i][1])}

\* C6 as stated: the result is the category of the first written (substring,
\* category) pair whose substring occurs in the lower-cased input, 'Other' when
\* none occurs.
C6_FirstDeclaredPair ==
  \A p \in Procs :
    IsClassified(p)
      => LET occurring == PairsOccurring(call[p].arguments.ingredient)
             first == CHOOSE i \in occurring : \A j \in occurring : i <= j
         IN result[p] = IF occurring = {} THEN "Other"
                        ELSE INGREDIENT_CATEGORIES_literal[first][2]

\* C6 amended: the result goes by the first written pair whose substring occurs
\* in the lower-cased input, and is the category of the last written pair with
\* that same substring; 'Other' when none occurs. 'Fresh Tomatoes' is Produce,
\* 'Ground Beef' is Meat & Seafood, 'unknown XYZ ingredient' is Other.
C6_FirstKeyLastCategory ==
  \A p \in Procs :
    IsClassified(p)
      => LET ingredient == call[p].arguments.ingredient
             occurring == PairsOccurring(ingredient)
             first == CHOOSE i \in occurring : \A j \in occurring : i <= j
             same == {j \in 1..Len(INGREDIENT_CATEGORIES_literal) :
                        INGREDIENT_CATEGORIES_literal[j][1] = INGREDIENT_CATEGORIES_literal[first][1]}
             last == CHOOSE j \in same : \A k \in same : k <= j
         IN /\ result[p] = IF occurring = {} THEN "Other"
                           ELSE INGREDIENT_CATEGORIES_literal[last][2]
            /\ ingredient = "Fresh Tomatoes" => result[p] = "Produce"
            /\ ingredient = "Ground Beef" => result[p] = "Meat & Seafood"
            /\ ingredient = "unknown XYZ ingredient" => result[p] = "Other"

\* 'black pepper' holds 'pepper', written first under Produce and again under
\* Spices: it is classified as Spices.
C6_Witness ==
  \E p \in Procs :
    /\ IsClassified(p)
    /\ call[p].arguments.ingredient = "black pepper"
    /\ result[p] = "Spices"

\* C7 as stated: for every table key that occurs in the name, the result is
\* that key's category; 'Other' for a name holding no key.
C7_EveryOccurringKey ==
  \A p \in Procs :
    IsClassified(p)
      => LET ingredient_lower == Lower(call[p].arguments.ingredient)
         IN /\ \A i \in 1..Len(INGREDIENT_CATEGORIES) :
                 Contains(ingredient_lower, INGREDIENT_CATEGORIES[i][1])
                   => result[p] = INGREDIENT_CATEGORIES[i][2]
            /\ (\A i \in 1..Len(INGREDIENT_CATEGORIES) :
                  ~Contains(ingredient_lower, INGREDIENT_CATEGORIES[i][1]))
                 => result[p] = "Other"

\* C7 amended: for every table key that occurs in the name while no key ahead
\* of it in the table does, the result is that key's category; 'Other' for a
\* name holding no key.
C7_EarliestOccurringKey ==
  \A p \in Procs :
    IsClassified(p)
      => LET ingredient_lower == Lower(call[p].arguments.ingredient)
         IN /\ \A i \in 1..Len(INGREDIENT_CATEGORIES) :
                 (/\ Contains(ingredient_lower, INGREDIENT_CATEGORIES[i][1])
                  /\ \A j \in 1..(i - 1) :
                       ~Contains(ingredient_lower, INGREDIENT_CATEGORIES[j][1]))
                   => result[p] = INGREDIENT_CATEGORIES[i][2]
            /\ (\A i \in 1..Len(INGREDIENT_CATEGORIES) :
                  ~Contains(ingredient_lower, INGREDIENT_CATEGORIES[i][1]))
                 => result[p] = "Other"

\* 'tomato sauce' holds 'tomato' (Produce) and 'sauce' (Pantry & Dry): it is
\* classified by 'tomato', the key ahead in the table.
C7_Witness ==
  \E p \in Procs :
    /\ IsClassified(p)
    /\ call[p].arguments.ingredient = "tomato sauce"
    /\ result[p] = "Produce"

(***************************************************************************)
(* Properties of the aggregation (SpecAggregate).                          *)
(***************************************************************************)

\* Invocation p has aggregated every meal of its call and has answered that
\* the shopping list was created.
IsAggregated(p) == IsListCreated(p) /\ loc[p].todo = <<>>

\* The slots of a meal that name the ingredient `key` once stripped and
\* lower-cased, and those among them that carry a non-blank measure.
SlotsOf(meal, key) ==
  {i \in 1..NumSlots :
     LET ingredient == Get(meal, "strIngredient" \o IntToStr(i), "")
     IN Truthy(ingredient) /\ Lower(Strip(ingredient)) = key}

MeasuredSlotsOf(meal, key) ==
  {i \in SlotsOf(meal, key) : Strip(Get(meal, "strMeasure" \o IntToStr(i), "")) /= ""}

\* The ingredients of a meal, stripped and lower-cased.
KeysOf(meal) ==
  {Lower(Strip(Get(meal, "strIngredient" \o IntToStr(i), ""))) :
     i \in {j \in 1..NumSlots : LET ingredient == Get(meal, "strIngredient" \o IntToStr(j), "")
                                IN Truthy(ingredient) /\ Strip(ingredient) /= ""}}

\* The entries of the aggregate of invocation p under `key`.
EntriesOf(p, key) ==
  {k \in 1..Len(loc[p].all_ingredients) : loc[p].all_ingredients[k].key = key}

\* The rows the layout draws for the aggregate of invocation p.
RowsOf(p) ==
  LET layout == shopping_list_layout(loc[p].all_ingredients)
  IN UNION {{layout[g].rows[r] : r \in DOMAIN layout[g].rows} : g \in DOMAIN layout}

\* C8: two recipes that share an ingredient name up to case and surrounding
\* whitespace aggregate to exactly one entry under the normalized key; its
\* measure list is as long as the two recipes' non-blank measures for it
\* together, and its recipe list holds both recipe names.
C8_SharedIngredientOneEntry ==
  \A p \in Procs :
    (IsAggregated(p) /\ Len(call[p].arguments.meal_ids) = 2)
      => LET a == MealDB[call[p].arguments.meal_ids[1]]
             b == MealDB[call[p].arguments.meal_ids[2]]
         IN a /= b =>
              \A key \in KeysOf(a) \cap KeysOf(b) :
                /\ Cardinality(EntriesOf(p, key)) = 1
                /\ \A k \in EntriesOf(p, key) :
                     /\ Len(loc[p].all_ingredients[k].measures)
                          = Cardinality(MeasuredSlotsOf(a, key)) + Cardinality(MeasuredSlotsOf(b, key))
                     /\ {a.strMeal, b.strMeal} \subseteq Range(loc[p].all_ingredients[k].recipes)

\* 'Tomato' of Pasta and ' TOMATO ' of Salad are one entry, 'tomato', with the
\* measures of both and both recipe names.
C8_Witness ==
  \E p \in Procs :
    /\ IsAggregated(p)
    /\ call[p].arguments.meal_ids = <<"52771", "52772">>
    /\ \E k \in EntriesOf(p, "tomato") :
         /\ loc[p].all_ingredients[k].measures = <<"3", "2">>
         /\ loc[p].all_ingredients[k].recipes = <<"Pasta", "Salad">>

\* C9: the same meal ID listed twice gives each of its ingredients a measure
\* list twice as long as one aggregation of the meal gives (measures are not
\* deduplicated), and the recipes shown for it, deduplicated at render time,
\* are one and not two.
C9_SameRecipeTwice ==
  \A p \in Procs :
    (/\ IsAggregated(p)
     /\ Len(call[p].arguments.meal_ids) = 2
     /\ call[p].arguments.meal_ids[1] = call[p].arguments.meal_ids[2])
      => LET meal == MealDB[call[p].arguments.meal_ids[1]]
             once == CollectIngredients(<<>>, meal, meal.strMeal, 1)
             twice == loc[p].all_ingredients
         IN /\ Len(twice) = Len(once)
            /\ \A k \in 1..Len(once) :
                 /\ twice[k].key = once[k].key
                 /\ Len(twice[k].measures) = 2 * Len(once[k].measures)
                 /\ Len(twice[k].measures) = 2 * Cardinality(MeasuredSlotsOf(meal, once[k].key))
                 /\ Len(twice[k].recipes) = 2 * Len(once[k].recipes)
            /\ \A row \in RowsOf(p) : Cardinality(row.recipes) = 1
            /\ Cardinality(RowsOf(p)) = Len(once)

\* Pasta listed twice: 'tomato' has the measures 3 and 3, the recipe list Pasta
\* and Pasta, and its row shows the one recipe Pasta.
C9_Witness ==
  \E p \in Procs :
    /\ IsAggregated(p)
    /\ call[p].arguments.meal_ids = <<"52771", "52771">>
    /\ \E k \in EntriesOf(p, "tomato") :
         /\ loc[p].all_ingredients[k].measures = <<"3", "3">>
         /\ loc[p].all_ingredients[k].recipes = <<"Pasta", "Pasta">>
    /\ \E row \in RowsOf(p) : row.original = "Tomato" /\ row.recipes = {"Pasta"}

(***************************************************************************)
(* Properties of the configuration store (SpecConfig).                     *)
(***************************************************************************)

\* set_recipes_directory has answered that save_recipes_dir succeeded.
IsDirectorySaved(p) ==
  /\ pc[p] = "done"
  /\ call[p].name = "set_recipes_directory"
  /\ StartsWith(result[p], "Recipes directory updated!")

\* C10: once save_recipes_dir(d) has succeeded, a fresh load_recipes_dir(), as
\* a restarted process runs it, returns the path that save returned.
C10_SaveThenLoad ==
  \A p \in Procs :
    IsDirectorySaved(p)
      => LET loaded == load_recipes_dir(files, dirs, config_file)
         IN /\ loaded.ok
            /\ loaded.path = loc[p].save_dir
            /\ loaded.path = expanduser(Path(call[p].arguments.directory))

\* A directory whose name holds a backslash and a quote has been saved.
C10_Witness ==
  \E p \in Procs :
    /\ IsDirectorySaved(p)
    /\ call[p].arguments.directory = "/data/a\\b\"c/"
    /\ loc[p].save_dir = <<"/", "data", "a\\b\"c">>
    /\ load_recipes_dir(files, dirs, config_file).path = <<"/", "data", "a\\b\"c">>

(***************************************************************************)
(* Properties of the saved documents (SpecSaved).                          *)
(***************************************************************************)

\* Invocation p has answered a call of the tool `name`.
HasAnswered(p, name) == pc[p] = "done" /\ call[p].name = name

\* The root is not there, or is a directory that holds nothing.
RootEmptyOrAbsent ==
  \/ RECIPES_DIR \notin files \cup dirs
  \/ RECIPES_DIR \in dirs /\ iterdir(files, dirs, RECIPES_DIR) = {}

\* A response that an exception of the handler's body was answered with.
IsErrorResponse(text) == StartsWith(text, "Error: ") \/ StartsWith(text, "API Error: ")

\* C12: on a root that is empty or is not there, list_saved_recipes answers
\* that there are no recipes and list_shopping_lists that there are no
\* shopping lists; neither answers with an error.
C12_EmptyRootListsNothing ==
  \A p \in Procs :
    RootEmptyOrAbsent
      => /\ HasAnswered(p, "list_saved_recipes")
              => /\ \/ StartsWith(result[p], "No saved recipes found.")
                    \/ StartsWith(result[p], "No recipes directory found.")
                 /\ ~IsErrorResponse(result[p])
         /\ HasAnswered(p, "list_shopping_lists")
              => /\ StartsWith(result[p], "No shopping lists found.")
                 /\ ~IsErrorResponse(result[p])

\* The root has been removed and list_saved_recipes has answered that no
\* recipes directory was found.
C12_Witness ==
  \E p \in Procs :
    /\ HasAnswered(p, "list_saved_recipes")
    /\ RECIPES_DIR \notin files \cup dirs
    /\ result[p] = "No recipes directory found.\n\nDirectory: /home/u/Documents/mealdb_recipes"

\* The category subdirectories of the root that hold a document `filename`.
HoldersOf(filename) ==
  {c \in dirs : c /= RECIPES_DIR /\ PathParent(c) = RECIPES_DIR /\ PathJoin(c, filename) \in files}

\* C13: delete_saved_recipe(filename), '.pdf' appended when it is missing,
\* removes exactly one file when k >= 1 category subdirectories hold the
\* filename, one of theirs, and leaves every other file; when no subdirectory
\* holds it, the root being empty or absent included, it removes nothing and
\* answers 'not found', not an error.
C13_DeleteRemovesOneOrReportsNotFound ==
  [][\A p \in Procs :
       (/\ pc[p] = "idle"
        /\ pc'[p] = "done"
        /\ call'[p].name = "delete_saved_recipe"
        /\ Get(call'[p].arguments, "filename", "") /= None)
         => LET filename == with_pdf_suffix(Get(call'[p].arguments, "filename", ""))
            IN /\ dirs' = dirs
               /\ IF HoldersOf(filename) /= {}
                    THEN /\ \E c \in HoldersOf(filename) : files' = files \ {PathJoin(c, filename)}
                         /\ StartsWith(result'[p], "Recipe deleted successfully!")
                    ELSE /\ files' = files
                         /\ StartsWith(result'[p], "Recipe not found: " \o filename)
                         /\ ~IsErrorResponse(result'[p])]_vars

\* The recipe documents under the configured root that a save has reported
\* as saved and no delete has removed since.
SavedAndKept == {f \in saved_docs : IsUnder(f, RECIPES_DIR)}

\* C14: after any sequence of successful recipe saves and deletes under the
\* configured root, list_saved_recipes reports as its total the number of
\* recipe documents saved and not yet deleted, one per category/filename
\* path, and lists each of them under its category.
C14_ListCountsSavedDocuments ==
  \A p \in Procs :
    HasAnswered(p, "list_saved_recipes")
      => /\ loc[p].total_files = Cardinality(SavedAndKept)
         /\ ListedRecipes(files, dirs, RECIPES_DIR) = SavedAndKept
         /\ \A f \in SavedAndKept :
              Contains(result[p], PathName(PathParent(f)) \o " (")
              /\ Contains(result[p], ". " \o PathStem(PathName(f)) \o "\n")

(***************************************************************************)
(* Properties of the current directory (SpecDirectory).                    *)
(***************************************************************************)

\* The directory the configuration file holds as recipes_dir, as a path.
PersistedDirectory == Path(recipes_path_of(json_load(config_file)))

\* Invocation p was given no directory of its own.
NoCustomDirectory(p) == ~Truthy(Get(call[p].arguments, "directory", None))

\* Invocation p has answered, and what it answered or did was about the
\* directory d.
OperatedOn(p, d) ==
  /\ HasAnswered(p, "get_recipes_directory")
       => result[p] = "Current recipes directory:\n" \o PathStr(d)
  /\ (HasAnswered(p, "list_saved_recipes") \/ HasAnswered(p, "list_shopping_lists"))
       => EndsWith(result[p], "Directory: " \o PathStr(d))
  /\ (HasAnswered(p, "list_shopping_lists") /\ loc[p].shopping_lists /= <<>>)
       => Range(loc[p].shopping_lists) = GlobShoppingLists(files, d)
  /\ (HasAnswered(p, "delete_shopping_list") /\ loc[p].filepath /= None)
       => PathParent(loc[p].filepath) = d
  /\ (IsRecipeSaved(p) /\ NoCustomDirectory(p))
       => loc[p].save_dir = d /\ IsUnder(loc[p].filepath, d)
  /\ (ListCallUnderWay(p) /\ NoCustomDirectory(p))
       => /\ loc[p].save_dir = d
          /\ Range(loc[p].existing_lists) \subseteq {f \in files \cup Range(loc[p].lists_to_delete) : PathParent(f) = d}
          /\ IsListCreated(p) => PathParent(loc[p].filepath) = d

ConfigTexts ==
  {None, Unreadable, "", "recipes_dir", "{}", "{\"theme\": \"dark\"}",
   "{\"recipes_dir\": \"\"}", "{\"recipes_dir\": null}",
   json_dump("/home/u/my"), "{\"recipes_dir\":\"~/kitchen/recipes\"}",
   "{\"recipes_dir\": \"/home/u/notes.txt/recipes\"}",
   "{\"recipes_dir\": \"/mnt/user-data/outputs\"}",
   "{\"recipes_dir\": \"~nobody/r\"}"}

\* The files that may be there before the first start: none, a file where a
\* configured directory is to go, a file in the output directory of the
\* host, a file in the place of that directory.
FilesBefore ==
  {{}, {Path("/home/u/notes.txt")}, {PathJoin(OutputsPath, "readme.txt")}, {OutputsPath},
   {Path("/home/u/notes.txt"), PathJoin(OutputsPath, "readme.txt")}}

\* The user writes, replaces or removes the configuration file while the
\* server is idle.
EditConfig(text) ==
  /\ \A p \in Procs : pc[p] = "idle"
  /\ config_file /= text
  /\ config_file' = text
  /\ UNCHANGED <<files, dirs, RECIPES_DIR, clock, pc, call, loc, result, last_saved, saved_docs, partial>>

InitLoad == \E fs \in FilesBefore : Startup(fs)

NextLoad ==
  \/ \E text \in ConfigTexts : EditConfig(text)
  \/ Restart
  \/ \E p \in Procs : get_recipes_directory(p, <<>>)
  \/ \E p \in Procs : Return(p)

SpecLoad == InitLoad /\ [][NextLoad]_vars

(***************************************************************************)
(* The writes of documents: shopping lists are created, under the name of  *)
(* the second or under a name the caller gives twice, and the build of the *)
(* document may raise before or after it has opened the file.              *)
(***************************************************************************)

WriteArguments ==
  {[meal_ids |-> <<"52771">>],
   [meal_ids |-> <<"52773">>, filename |-> "mine"],
   [meal_ids |-> <<"52771", "52772">>, filename |-> "mine", replace_existing |-> TRUE]}

InitWrites == \E n \in 0..1 : Startup({PreList(i) : i \in 1..n})

NextWrites ==
  \/ \E p \in Procs, arguments \in WriteArguments : create_shopping_list(p, arguments)
  \/ \E p \in Procs, http_ok \in BOOLEAN, render_ok \in BOOLEAN :
       create_shopping_list_resume(p, http_ok, render_ok)
  \/ \E p \in Procs : create_shopping_list_write_raises(p)
  \/ \E p \in Procs : list_shopping_lists(p, <<>>)
  \/ \E p \in Procs : Return(p)
  \/ Tick

SpecWrites == InitWrites /\ [][NextWrites]_vars

(***************************************************************************)
(* The deletion of shopping lists: on a root that holds lists and recipe   *)
(* documents, next to a file outside it, lists are deleted by name and all *)
(* at once.                                                                *)
(***************************************************************************)

\* A file of the user outside the recipes directory.
OutsideFile == Path("/home/u/notes.pdf")

\* The names delete_shopping_list is called with.
DeleteListArguments ==
  {[filename |-> f] : f \in {"shopping_list_20240101_120000", "shopping_list_20240102_120000.pdf",
                              "nonexistent", "Pasta/Pasta.pdf", "Dessert/Cake", "/home/u/notes"}}

InitDeletes ==
  \E pre \in SUBSET SavedBefore, n \in 0..2, outside \in SUBSET {OutsideFile} :
    Startup(pre \cup {PreList(i) : i \in 1..n} \cup outside)

NextDeletes ==
  \/ \E p \in Procs, arguments \in DeleteListArguments : delete_shopping_list(p, arguments)
  \/ \E p \in Procs : delete_all_shopping_lists(p, <<>>)
  \/ \E p \in Procs : list_shopping_lists(p, <<>>)
  \/ \E p \in Procs : Return(p)

SpecDeletes == InitDeletes /\ [][NextDeletes]_vars

(***************************************************************************)
(* The boundary of the handlers.                                           *)
(***************************************************************************)

\* The positions of a call that is being served: idle, awaiting a request,
\* or answered.
ServedPositions == {"idle", "api_request", "fetch_recipe", "search_recipe", "fetch_list", "done"}

RequiredFields(name) ==
  CASE name = "search_meal_by_name" -> {"name"}
    [] name = "list_meals_by_first_letter" -> {"letter"}
    [] name \in {"lookup_meal_by_id", "save_recipe_to_file"} -> {"meal_id"}
    [] name = "filter_by_ingredient" -> {"ingredient"}
    [] name = "filter_by_category" -> {"category"}
    [] name = "filter_by_area" -> {"area"}
    [] name = "save_recipe_by_name" -> {"recipe_name"}
    [] name \in {"delete_saved_recipe", "delete_shopping_list"} -> {"filename"}
    [] name = "create_shopping_list" -> {"meal_ids"}
    [] name = "set_recipes_directory" -> {"directory"}
    [] OTHER -> {}

\* Input that is malformed: a meal ID given that is not numeric, a letter
\* given that is not one alphabetic character, a required field given empty.
MalformedCall(name, arguments) ==
  \/ /\ "meal_id" \in DOMAIN arguments \cap RequiredFields(name)
     /\ arguments.meal_id /= None
     /\ ~isdigit(arguments.meal_id)
  \/ /\ "letter" \in DOMAIN arguments \cap RequiredFields(name)
     /\ arguments.letter /= None
     /\ ~(isalpha(arguments.letter) /\ Len(arguments.letter) = 1)
  \/ \E field \in DOMAIN arguments \cap RequiredFields(name) :
       IF field = "meal_ids" THEN arguments[field] = <<>> ELSE arguments[field] = ""

\* C16: a call with malformed input is answered in the step that takes it up,
\* before any request to the network is awaited, and the files, the
\* directories and the configuration file are as they were.
C16_MalformedInputIsRejectedAtOnce ==
  [][\A p \in Procs :
       (/\ pc[p] = "idle"
        /\ pc'[p] /= "idle"
        /\ MalformedCall(call'[p].name, call'[p].arguments))
       => /\ pc'[p] = "done"
          /\ result'[p] /= None
          /\ files' = files
          /\ dirs' = dirs
          /\ config_file' = config_file]_vars


(***************************************************************************)
(* The documents on the file system.                                       *)
(***************************************************************************)

\* C17: no path holds a document that is written in part or truncated; a
\* document that is there is replaced by a complete one or not at all.
C17_NoPartialDocument == \A f \in files : f \notin partial


(***************************************************************************)
(* The order of the rows of a shopping list.                               *)
(***************************************************************************)

\* The dict the loop `for meal_id in meal_ids` has built when every fetch
\* has returned its meal (tools.py 467-487), from the dict all_ingredients
\* and the IDs still to fetch; None where a null measure makes it raise.
RECURSIVE aggregate(_, _)
aggregate(all_ingredients, meal_ids) ==
  IF meal_ids = <<>> \/ all_ingredients = None THEN all_ingredients
  ELSE aggregate(CollectIngredients(all_ingredients, MealDB[Head(meal_ids)],
                                    Get(MealDB[Head(meal_ids)], "strMeal", "Unknown"), 1),
                 Tail(meal_ids))

\* The rows of a layout in the order they are drawn, each as the category
\* heading it is under and the ingredient name drawn in it.
RECURSIVE DrawnRows(_, _)
DrawnRows(layout, g) ==
  IF g > Len(layout) THEN <<>>
  ELSE [r \in 1..Len(layout[g].rows) |-> <<layout[g].category, layout[g].rows[r].title>>]
       \o DrawnRows(layout, g + 1)

\* The orderings of a list of meal IDs.
Orderings(meal_ids) ==
  {[i \in 1..Len(meal_ids) |-> meal_ids[f[i]]] :
     f \in {g \in [1..Len(meal_ids) -> 1..Len(meal_ids)] :
              \A i, j \in 1..Len(meal_ids) : g[i] = g[j] => i = j}}

\* C18: when a shopping list has been created from a list of recipes, every
\* other ordering of those recipes aggregates to a dict whose layout draws
\* the same (category, ingredient) rows in the same order.
C18_RowsIndependentOfOrder ==
  \A p \in Procs :
    IsAggregated(p) =>
      \A other \in Orderings(call[p].arguments.meal_ids) :
        /\ aggregate(<<>>, other) /= None
        /\ DrawnRows(shopping_list_layout(aggregate(<<>>, other)), 1)
             = DrawnRows(shopping_list_layout(loc[p].all_ingredients), 1)

\* Salad, then Fish/Chips, then Pasta: the tomato is aggregated as 'TOMATO',
\* in the order Pasta first as 'Tomato', and of the five rows drawn
\* (Produce, 'Tomato') comes after (Produce, 'Lettuce') in both.
C18_Witness ==
  \E p \in Procs :
    /\ IsAggregated(p)
    /\ call[p].arguments.meal_ids = <<"52772", "52773", "52771">>
    /\ \E k \in DOMAIN loc[p].all_ingredients : loc[p].all_ingredients[k].original = "TOMATO"
    /\ \E k \in DOMAIN aggregate(<<>>, <<"52771", "52773", "52772">>) :
         aggregate(<<>>, <<"52771", "52773", "52772">>)[k].original = "Tomato"
    /\ \E i, j \in 1..5 :
         /\ i < j
         /\ Len(DrawnRows(shopping_list_layout(loc[p].all_ingredients), 1)) = 5
         /\ DrawnRows(shopping_list_layout(loc[p].all_ingredients), 1)[i] = <<"Produce", "Lettuce">>
         /\ DrawnRows(shopping_list_layout(loc[p].all_ingredients), 1)[j] = <<"Produce", "Tomato">>


(***************************************************************************)
(* The directory load_recipes_dir returns.                                 *)
(***************************************************************************)

\* The configuration file is there, can be read, is well formed and has the
\* key recipes_dir.
HasRecipesDirKey ==
  /\ config_file \notin {None, Unreadable}
  /\ json_load(config_file).ok
  /\ "recipes_dir" \in DOMAIN json_load(config_file).value

\* The value of the key, None where the file has none to give.
RecipesDirValue == IF HasRecipesDirKey THEN json_load(config_file).value.recipes_dir ELSE None

\* The directory a value of the key names, None where it names none.
NamedDirectory(value) == IF value = None THEN None ELSE expanduser(Path(value))

C20_LoadFailsWhenDirectoryCannotBeCreated ==
  [][Restart =>
       ~(/\ Truthy(RecipesDirValue)
         /\ NamedDirectory(RecipesDirValue) /= None
         /\ WithParents(NamedDirectory(RecipesDirValue)) \cap files /= {})]_vars


(***************************************************************************)
(* What the deletion of shopping lists removes.                            *)
(***************************************************************************)

\* C21: a call of delete_shopping_list or delete_all_shopping_lists removes
\* only files that are right under the recipes directory and are named
\* shopping_list_*.pdf; every other file and every directory is as it was.
C21_DeletesOnlyShoppingLists ==
  [][\A p \in Procs :
       (/\ pc[p] = "idle"
        /\ pc'[p] = "done"
        /\ call'[p].name \in {"delete_shopping_list", "delete_all_shopping_lists"})
       => /\ \A f \in files \ files' :
               PathParent(f) = RECIPES_DIR /\ IsShoppingListName(PathName(f))
          /\ files' \subseteq files
          /\ dirs' = dirs]_vars


(***************************************************************************)
(* Where a shopping list is written.                                       *)
(***************************************************************************)

\* C22: the document a successful create_shopping_list has written is right
\* under its root and is named shopping_list_<timestamp>.pdf, so that the glob
\* shopping_list_*.pdf of that root, which the listing and the retention rule
\* go by, finds it.
C22_ListLivesUnderTimestampName ==
  \A p \in Procs :
    IsListCreated(p) =>
      /\ PathParent(loc[p].filepath) = loc[p].save_dir
      /\ IsShoppingListName(PathName(loc[p].filepath))
      /\ loc[p].filepath \in GlobShoppingLists(files, loc[p].save_dir)


(***************************************************************************)
(* The image of a recipe document.                                         *)
(***************************************************************************)

\* The request for the image at url fails: a host under the top-level domain
\* .invalid has no address (pdf_recipe.py 98-103, httpx.RequestError).
ImageFetchFails(url) == url /= None /\ Contains(url, ".invalid/")

\* The meal a recipe save that has reported success has saved.
SavedMeal(p) ==
  IF call[p].name = "save_recipe_to_file" THEN MealDB[Get(call[p].arguments, "meal_id", "")]
  ELSE search_meals(Get(call[p].arguments, "recipe_name", ""))[1]

\* C23: a recipe save of a meal whose image cannot be fetched, and in which
\* nothing else fails, reports success and its document is written.
C23_SaveSurvivesImageFailure ==
  \A p \in Procs :
    (/\ IsRecipeSaved(p)
     /\ ImageFetchFails(Get(SavedMeal(p), "strMealThumb", None)))
      => loc[p].filepath \in files


(***************************************************************************)
(* The keys declared under Spices.                                         *)
(***************************************************************************)

\* The keys the table declares in its Spices group (categories.py 32-36).
SpicesKeys ==
  {INGREDIENT_CATEGORIES_literal[i][1] : i \in
     {j \in 1..Len(INGREDIENT_CATEGORIES_literal) : INGREDIENT_CATEGORIES_literal[j][2] = "Spices"}}

\* The keys of the table that occur in the lower-cased name.
MatchingKeys(ingredient) ==
  {INGREDIENT_CATEGORIES_literal[i][1] : i \in
     {j \in 1..Len(INGREDIENT_CATEGORIES_literal) :
        Contains(Lower(ingredient), INGREDIENT_CATEGORIES_literal[j][1])}}

\* C24: a name in which one key of the table occurs and no other, that key
\* being declared in the Spices group, is classified as Spices, also when the
\* key is 'pepper' or 'salt', which an earlier group declares too.
C24_OnlySpicesKeyIsSpices ==
  \A p \in Procs :
    (/\ IsClassified(p)
     /\ Cardinality(MatchingKeys(call[p].arguments.ingredient)) = 1
     /\ MatchingKeys(call[p].arguments.ingredient) \subseteq SpicesKeys)
      => result[p] = "Spices"

\* 'Sea Salt' holds the one key 'salt', declared under Pantry & Dry and again
\* under Spices, and has been classified as Spices.
C24_Witness ==
  \E p \in Procs :
    /\ IsClassified(p)
    /\ call[p].arguments.ingredient = "Sea Salt"
    /\ MatchingKeys("Sea Salt") = {"salt"}
    /\ "salt" \in SpicesKeys
    /\ \E i \in 1..Len(INGREDIENT_CATEGORIES_literal) :
         INGREDIENT_CATEGORIES_literal[i] = <<"salt", "Pantry & Dry">>
    /\ result[p] = "Spices"


(***************************************************************************)
(* The entries of an aggregate.                                            *)
(***************************************************************************)

\* The occurrences of the ingredient `key` in the recipes meal_ids: the
\* position of the recipe and the slot; and those with a non-blank measure.
Occurrences(meal_ids, key) ==
  {o \in (1..Len(meal_ids)) \X (1..NumSlots) : o[2] \in SlotsOf(MealDB[meal_ids[o[1]]], key)}

MeasuredOccurrences(meal_ids, key) ==
  {o \in (1..Len(meal_ids)) \X (1..NumSlots) : o[2] \in MeasuredSlotsOf(MealDB[meal_ids[o[1]]], key)}

\* C25: in the aggregate of a list of recipes there is one entry for each
\* trimmed, lower-cased name of a non-blank ingredient slot and no other; the
\* key of an entry is its display name lower-cased, the display name is
\* trimmed; its recipe list has one element for each occurrence of the
\* ingredient and its measure list one for each occurrence with a non-blank
\* measure, which is never more.
C25_EntriesOfAggregate ==
  \A p \in Procs :
    IsAggregated(p) =>
      LET meal_ids == call[p].arguments.meal_ids
          entries == loc[p].all_ingredients
      IN /\ {entries[k].key : k \in DOMAIN entries}
              = UNION {KeysOf(MealDB[meal_ids[i]]) : i \in DOMAIN meal_ids}
         /\ \A k \in DOMAIN entries :
              /\ Cardinality(EntriesOf(p, entries[k].key)) = 1
              /\ entries[k].key /= ""
              /\ entries[k].key = Lower(entries[k].original)
              /\ entries[k].original = Strip(entries[k].original)
              /\ Len(entries[k].recipes) = Cardinality(Occurrences(meal_ids, entries[k].key))
              /\ Len(entries[k].measures)
                   = Cardinality(MeasuredOccurrences(meal_ids, entries[k].key))
              /\ Len(entries[k].measures) <= Len(entries[k].recipes)

\* Salad and Fish/Chips: the blank fourth slot of Salad has made no entry,
\* 'tomato' has two recipes and one measure, 'salt' one recipe and none.
C25_Witness ==
  \E p \in Procs :
    /\ IsAggregated(p)
    /\ call[p].arguments.meal_ids = <<"52772", "52773">>
    /\ Len(loc[p].all_ingredients) = 4
    /\ \E k \in DOMAIN loc[p].all_ingredients :
         /\ loc[p].all_ingredients[k].key = "tomato"
         /\ loc[p].all_ingredients[k].original = "TOMATO"
         /\ loc[p].all_ingredients[k].recipes = <<"Salad", "Fish/Chips">>
         /\ loc[p].all_ingredients[k].measures = <<"2">>
    /\ \E k \in DOMAIN loc[p].all_ingredients :
         /\ loc[p].all_ingredients[k].key = "salt"
         /\ loc[p].all_ingredients[k].measures = <<>>


(***************************************************************************)
(* The groups of a shopping list.                                          *)
(***************************************************************************)

\* The places of the layout, group and row, that show the display name.
PlacesOf(layout, original) ==
  {pl \in UNION {{<<g, r>> : r \in DOMAIN layout[g].rows} : g \in DOMAIN layout} :
     layout[pl[1]].rows[pl[2]].original = original}

\* The groups of the layout ascend by category name, every entry of the
\* aggregate has one place, in the group of the category of its display name,
\* and the rows of a group ascend by lower-cased display name.
IsGroupedAndSorted(layout, entries) ==
  /\ \A g, h \in DOMAIN layout : g < h => StrLess(layout[g].category, layout[h].category)
  /\ \A g \in DOMAIN layout : layout[g].rows /= <<>>
  /\ \A k \in DOMAIN entries :
       /\ Cardinality(PlacesOf(layout, entries[k].original)) = 1
       /\ \A pl \in PlacesOf(layout, entries[k].original) :
            layout[pl[1]].category = get_ingredient_category(entries[k].original)
  /\ \A g \in DOMAIN layout : \A r, q \in DOMAIN layout[g].rows :
       r < q => StrLess(Lower(layout[g].rows[r].original), Lower(layout[g].rows[q].original))

\* C26: the layout of the shopping list of an aggregate has its category groups
\* in ascending order of category name, shows every aggregated ingredient in
\* one group, that of the category of its display name, and has the rows of
\* each group ascending by lower-cased display name.
C26_GroupsAndRowsAscend ==
  \A p \in Procs :
    IsAggregated(p) =>
      IsGroupedAndSorted(shopping_list_layout(loc[p].all_ingredients), loc[p].all_ingredients)

\* Pasta then Salad: aggregated in the order Spaghetti, Tomato, Lettuce, Salt,
\* drawn as Other, then Produce with Lettuce before Tomato, then Spices.
C26_Witness ==
  \E p \in Procs :
    /\ IsAggregated(p)
    /\ call[p].arguments.meal_ids = <<"52771", "52772">>
    /\ [k \in DOMAIN loc[p].all_ingredients |-> loc[p].all_ingredients[k].original]
         = <<"Spaghetti", "Tomato", "Lettuce", "Salt">>
    /\ [g \in DOMAIN shopping_list_layout(loc[p].all_ingredients) |->
          shopping_list_layout(loc[p].all_ingredients)[g].category]
         = <<"Other", "Produce", "Spices">>
    /\ [r \in 1..2 |-> shopping_list_layout(loc[p].all_ingredients)[2].rows[r].original]
         = <<"Lettuce", "Tomato">>


(***************************************************************************)
(* The routing of call_tool.                                               *)
(***************************************************************************)

\* The positions at which handle_local_tool awaits a meal.
LocalAwaits == {"fetch_recipe", "search_recipe", "fetch_list"}

\* A response of handle_api_tool that is not the text of an answer: one of its
\* two validation messages, or its report of an exception.
IsApiRefusal(text) ==
  \/ text = "Invalid input. Please provide a single letter (A-Z)."
  \/ text = "Invalid meal ID. Please provide a numeric ID."
  \/ StartsWith(text, "API Error: ")

\* C27: call_tool answers every name from one handler. A name advertised by
\* get_api_tool_definitions is answered by handle_api_tool, which issues its
\* request or refuses, and touches no file; a name advertised by
\* get_local_tool_definitions is passed by handle_api_tool without a request
\* and answered by handle_local_tool, never as unknown; any other name is
\* answered "ERROR: Unknown tool: <name>" and nothing else changes. Only the
\* call of an API tool waits for the API handler's request, and only the call
\* of a local tool waits at an await of the local handler.
C27_OneHandlerAnswers ==
  [][\A p \in Procs :
       /\ Range(get_api_tool_definitions) \cap Range(get_local_tool_definitions) = {}
       /\ pc[p] = "api_request" => call[p].name \in Range(get_api_tool_definitions)
       /\ pc[p] \in LocalAwaits => call[p].name \in Range(get_local_tool_definitions)
       /\ (pc[p] = "idle" /\ pc'[p] /= "idle") =>
            IF call'[p].name \in Range(get_api_tool_definitions)
              THEN /\ pc'[p] \in {"api_request", "done"}
                   /\ pc'[p] = "done" => IsApiRefusal(result'[p])
                   /\ UNCHANGED <<files, dirs, config_file, RECIPES_DIR, last_saved, saved_docs, partial>>
            ELSE IF call'[p].name \in Range(get_local_tool_definitions)
              THEN /\ pc'[p] \in LocalAwaits \cup {"done"}
                   /\ pc'[p] = "done" => /\ result'[p] /= None
                                          /\ ~IsApiRefusal(result'[p])
                                          /\ ~StartsWith(result'[p], "ERROR: Unknown tool")
            ELSE /\ pc'[p] = "done"
                 /\ result'[p] = "ERROR: Unknown tool: " \o call'[p].name
                 /\ UNCHANGED <<files, dirs, config_file, RECIPES_DIR, clock, last_saved,
                                saved_docs, partial>>]_vars

\* A name that differs from an advertised one by its case has been answered as
\* unknown.
C27_Witness ==
  \E p \in Procs :
    /\ pc[p] = "done"
    /\ call[p].name = "SAVE_RECIPE_TO_FILE"
    /\ result[p] = "ERROR: Unknown tool: SAVE_RECIPE_TO_FILE"
    /\ files /= {}


(***************************************************************************)
(* Termination of the handlers (SpecToolsFair).                            *)
(***************************************************************************)

\* C28: when every collaborator call returns, fails or times out, every tool
\* invocation that has begun comes to a response, of success or of failure; no
\* handler waits or goes round a loop for ever on its own.
C28_EveryInvocationReturns ==
  \A p \in Procs : (pc[p] /= "idle") ~> (pc[p] = "done" /\ result[p] /= None)

\* A shopping list of two meals has awaited two fetches and has been answered.
C28_Witness ==
  \E p \in Procs :
    /\ pc[p] = "done"
    /\ call[p].name = "create_shopping_list"
    /\ Len(Get(call[p].arguments, "meal_ids", <<>>)) = 2
    /\ loc[p].todo = <<>>
    /\ Len(loc[p].meal_names) = 2
    /\ StartsWith(result[p], "Shopping list created successfully!")


(***************************************************************************)
(* A create_shopping_list that fails (SpecLists).                          *)
(***************************************************************************)

\* Invocation p is a create_shopping_list call that got as far as its save
\* directory and has ended in a failure response.
IsListFailed(p) ==
  /\ ListCallUnderWay(p)
  /\ pc[p] = "done"
  /\ ~IsListCreated(p)

\* C29: when create_shopping_list has ended in a failure response (a fetch
\* failed, a meal ID was not found, or the rendering failed), the shopping
\* lists in its target directory are those that were there before the call,
\* with replace_existing=true as well.
C29_FailureLeavesListsAsTheyWere ==
  \A p \in Procs :
    IsListFailed(p) => ListsNow(p) = Range(loc[p].existing_lists)


(***************************************************************************)
(* Two interleaved create_shopping_list invocations (SpecInterleaved).     *)
(***************************************************************************)

\* C30: once two create_shopping_list invocations with replace_existing=true
\* on one directory, interleaved at their fetches, have both completed, the
\* directory holds at most three shopping lists.
C30_AtMostThreeAfterBoth ==
  (\A p \in Invocations :
     /\ pc[p] = "done"
     /\ call[p].name = "create_shopping_list"
     /\ Get(call[p].arguments, "replace_existing", FALSE)
     /\ loc[p].save_dir = RECIPES_DIR)
  => Cardinality(GlobShoppingLists(files, RECIPES_DIR)) <= 3

====
